---- MODULE Spec2Model ----
(***************************************************************************)
(* Model of the live decision path of doge_quant_system:                   *)
(*   data/market_data.py      MarketData     (price cache, order submission)*)
(*   core/config_manager.py   ConfigManager  (risk parameters)             *)
(*   core/risk_manager.py     RiskManager    (rolling loss window)         *)
(*   execution/order_executor.py OrderExecutor (throttle, gate, ledger)    *)
(*   core/system_runner.py    run_trading_system (one live cycle)          *)
(*                                                                         *)
(* Money amounts are integers (USDT); order sizes are exact fractions      *)
(* [n, d] so that the divisions of the code are not rounded.  Every method *)
(* is an operator from the objects' fields to their new fields and the     *)
(* returned value; the actions apply them to the state.                    *)
(***************************************************************************)
EXTENDS Integers, Sequences, FiniteSets, TLC

\* ---------------------------------------------------------------- bounds
MaxTicks == 1            \* clock advances between calls of the gateway
                         \* (a call may take time once more after them)
MaxRiskTicks == 2        \* clock advances between calls of the risk governor
MaxOrders == 2           \* length of the order ledger that is explored
StartTime == 100000      \* time.time() when the objects are constructed
MaxBars == 52            \* bars of the longest historical series
MaxLater == 2            \* candles the exchange holds beyond the series
MaxTrades == 4           \* entries of the longest trade log
MaxSignals == 2          \* signals handed to the combiner at once

\* clock advances explored between and inside calls (seconds)
Jumps == {50, 290}
DayJumps == {10, 86400}
LoopJumps == {60, 300}
Latencies == {0, 10}

\* --------------------------------------------------- program constants
min_order_interval == 60
WindowSeconds == 86400
PriceCacheFresh == 5
PriceCacheStale == 300
DefaultMaxPositionPercent == 5
DefaultMaxDailyLoss == 3
MinBars == 50            \* run_backtest: bars below which it raises
FirstBar == 50           \* run_backtest: index of the first simulated bar
InitialCapital == 1000   \* run_backtest: default initial_capital
DefaultStopLossPercent == 5
DefaultTakeProfitRatio == 2

\* ------------------------------------------------------- the exchange
\* What the OKX API answers at one moment: the response code of a request
\* ("0" accepted, anything else is an API or network failure) and the last
\* traded price.
Codes == {"0", "1"}
Prices == {1, 2, 3}
Exchanges == [code : Codes, price : Prices]
\* the available balances: 40 DOGE and 1920 USDT, worth 1960, 2000 or 2040
\* USDT; the account value moves with the price only
Account == [doge |-> 40, usdt |-> 1920]

VARIABLES
  now,              \* time.time()
  ticks,            \* clock advances so far
  exchange,         \* current answer of the exchange
  simulation_mode,  \* SYSTEM_CONFIG["simulation_mode"]
  price_cache,      \* MarketData.price_cache
  risk_params,      \* ConfigManager.config["risk_management"]
  risk_manager,     \* fields of the RiskManager
  order_executor,   \* fields of the OrderExecutor
  running,          \* the loop of run_trading_system has not terminated
  last_place_time,  \* time of the latest place_order invocation (0: none)
  window_event,     \* "reset": a tripped window was reset and
                    \* should_stop_trading has not been called since
  last,             \* what the latest call did and returned
  backtest,         \* a run of Backtester.run_backtest: its inputs, its
                    \* local variables and its results
  replay            \* a second run of run_backtest, beside the first

vars == <<now, ticks, exchange, simulation_mode, price_cache, risk_params,
          risk_manager, order_executor, running, last_place_time,
          window_event, last, backtest, replay>>

\* ------------------------------------------------------------ fractions
RECURSIVE GCD(_, _)
GCD(a, b) == IF b = 0 THEN a ELSE GCD(b, a % b)
Abs(a) == IF a < 0 THEN -a ELSE a
\* the fraction n/d (d > 0) in lowest terms
Frac(n, d) == LET g == GCD(Abs(n), d) IN [n |-> n \div g, d |-> d \div g]
FracLT(a, b) == a.n * b.d < b.n * a.d
\* Python's min(a, b): b if b < a else a
FracMin(a, b) == IF FracLT(b, a) THEN b ELSE a

Max(a, b) == IF a >= b THEN a ELSE b
Min(a, b) == IF a <= b THEN a ELSE b

\* ======================================================== MarketData
\* _make_request: a response whose code is not "0", and a network failure,
\* both raise.
_make_request_raises(ex) == ex.code # "0"

\* get_current_price at time t: the cache if younger than 5 s, else the
\* ticker; when the request fails, a cache younger than 300 s, else raise.
get_current_price(cache, t, ex) ==
  IF t - cache.timestamp < PriceCacheFresh /\ cache.price > 0
    THEN [cache |-> cache, raised |-> FALSE, ret |-> cache.price]
  ELSE IF ~_make_request_raises(ex)
    THEN [cache |-> [price |-> ex.price, timestamp |-> t],
          raised |-> FALSE, ret |-> ex.price]
  ELSE IF cache.price > 0 /\ t - cache.timestamp < PriceCacheStale
    THEN [cache |-> cache, raised |-> FALSE, ret |-> cache.price]
  ELSE [cache |-> cache, raised |-> TRUE, ret |-> 0]

\* get_account_balance(ccy): the available balance, or raise.
get_account_balance(ccy, ex) ==
  IF _make_request_raises(ex) THEN [raised |-> TRUE, ret |-> 0]
  ELSE [raised |-> FALSE,
        ret |-> IF ccy = "DOGE" THEN Account.doge ELSE Account.usdt]

\* place_order: in simulation mode a canned acceptance without any request;
\* otherwise the POST, whose failure (of any kind) raises.
place_order(sim, ex) ==
  IF sim THEN "accepted"
  ELSE IF _make_request_raises(ex) THEN "raised"
  ELSE IF ex.code = "0" THEN "accepted" ELSE "rejected"

\* ======================================================== RiskManager
\* the value of an expression that is evaluated once and then named: the
\* element of the one-element set S
Only(S) == CHOOSE x \in S : TRUE

\* a balance query that answers 0 whenever the retrieval fails
_get_current_balance_zero_on_failure(rm, cache, t, ex, has_last) ==
  Only({ IF d.raised \/ u.raised
           THEN [cache |-> cache, ret |-> 0, failed |-> TRUE]
         ELSE IF p.raised
           THEN [cache |-> p.cache, ret |-> 0, failed |-> TRUE]
         ELSE [cache |-> p.cache, ret |-> d.ret * p.ret + u.ret, failed |-> FALSE] :
         d \in {get_account_balance("DOGE", ex)},
         u \in {get_account_balance("USDT", ex)},
         p \in {get_current_price(cache, t, ex)} })

\* _get_current_balance: doge * price + usdt; on any exception the last
\* recorded balance, or 0.0 when the attribute does not exist yet.
_get_current_balance(rm, cache, t, ex, has_last) ==
  Only({ IF d.raised \/ u.raised
           THEN [cache |-> cache,
                 ret |-> IF has_last THEN rm.last_balance ELSE 0, failed |-> TRUE]
         ELSE IF p.raised
           THEN [cache |-> p.cache,
                 ret |-> IF has_last THEN rm.last_balance ELSE 0, failed |-> TRUE]
         ELSE [cache |-> p.cache, ret |-> d.ret * p.ret + u.ret, failed |-> FALSE] :
         d \in {get_account_balance("DOGE", ex)},
         u \in {get_account_balance("USDT", ex)},
         p \in {get_current_price(cache, t, ex)} })

\* __init__
RiskManager__init__(cache, t, ex) ==
  Only({ [rm |-> [daily_pnl |-> 0, daily_loss |-> 0, daily_reset_time |-> t,
                  initial_balance |-> b.ret, last_balance |-> b.ret,
                  max_daily_loss_reached |-> FALSE],
          cache |-> b.cache, balance_failed |-> b.failed] :
         b \in {_get_current_balance([last_balance |-> 0], cache, t, ex, FALSE)} })

\* reset_daily_metrics
reset_daily_metrics(rm, cache, t, ex) ==
  Only({ [rm |-> [daily_pnl |-> 0, daily_loss |-> 0, daily_reset_time |-> t,
                  initial_balance |-> b.ret, last_balance |-> b.ret,
                  max_daily_loss_reached |-> FALSE],
          cache |-> b.cache, balance |-> b.ret, balance_failed |-> b.failed] :
         b \in {_get_current_balance(rm, cache, t, ex, TRUE)} })

\* a comparison that is made whatever the balance of the window start
DailyLossTrips_without_balance_guard(rm, rp) ==
  /\ rm.daily_loss * 100 >= rp.max_daily_loss * rm.initial_balance
  /\ ~rm.max_daily_loss_reached

\* lines 111-119 of update_metrics: the flag is only ever set here, from the
\* loss since the previous update.
DailyLossTrips(rm, rp) ==
  /\ rm.initial_balance > 0
  /\ rm.daily_loss * 100 >= rp.max_daily_loss * rm.initial_balance
  /\ ~rm.max_daily_loss_reached

\* lines 105-119 of update_metrics, on the balance b that line 106 read
MetricsAfter(rm, b, rp) ==
  Only({ [rm1 EXCEPT !.max_daily_loss_reached = @ \/ DailyLossTrips(rm1, rp)] :
         rm1 \in {[rm EXCEPT !.daily_pnl = b - rm.initial_balance,
                             !.daily_loss = Max(0, rm.last_balance - b),
                             !.last_balance = b]} })

\* update_metrics at time t. ex1 answers the balance query of the reset,
\* ex2 the balance query that follows it.
update_metrics(rm, cache, t, ex1, ex2, rp) ==
  Only({ Only({ [rm |-> MetricsAfter(r.rm, b.ret, rp), cache |-> b.cache,
                 reset |-> t - rm.daily_reset_time > WindowSeconds,
                 reset_balance |-> r.balance,
                 reset_failed |-> r.balance_failed,
                 last_balance_read |-> r.rm.last_balance,
                 balance_failed |-> b.failed,
                 current_balance |-> b.ret] :
                b \in {_get_current_balance(r.rm, r.cache, t, ex2, TRUE)} }) :
         r \in {IF t - rm.daily_reset_time > WindowSeconds
                  THEN reset_daily_metrics(rm, cache, t, ex1)
                  ELSE [rm |-> rm, cache |-> cache, balance |-> 0,
                        balance_failed |-> FALSE]} })

\* line 171-174 of should_stop_trading
LossAtOrAboveLimit(initial_balance, account_value, max_daily_loss) ==
  (initial_balance - account_value) * 100 >= max_daily_loss * initial_balance

\* a breaker that stays tripped once it has tripped
should_stop_trading_latched(rm, cache, t, ex, rp) ==
  Only({ IF rm.initial_balance <= 0
           THEN [rm |-> rm, cache |-> b.cache, ret |-> FALSE, account_value |-> b.ret,
                 balance_failed |-> b.failed]
           ELSE [rm |-> [rm EXCEPT !.max_daily_loss_reached = @ \/
                           LossAtOrAboveLimit(rm.initial_balance, b.ret, rp.max_daily_loss)],
                 cache |-> b.cache,
                 ret |-> rm.max_daily_loss_reached \/
                           LossAtOrAboveLimit(rm.initial_balance, b.ret, rp.max_daily_loss),
                 account_value |-> b.ret, balance_failed |-> b.failed] :
         b \in {_get_current_balance(rm, cache, t, ex, TRUE)} })

\* should_stop_trading
should_stop_trading(rm, cache, t, ex, rp) ==
  Only({ IF rm.initial_balance <= 0
           THEN [rm |-> rm, cache |-> b.cache, ret |-> FALSE, account_value |-> b.ret,
                 balance_failed |-> b.failed]
           ELSE [rm |-> [rm EXCEPT !.max_daily_loss_reached =
                           LossAtOrAboveLimit(rm.initial_balance, b.ret, rp.max_daily_loss)],
                 cache |-> b.cache,
                 ret |-> LossAtOrAboveLimit(rm.initial_balance, b.ret, rp.max_daily_loss),
                 account_value |-> b.ret, balance_failed |-> b.failed] :
         b \in {_get_current_balance(rm, cache, t, ex, TRUE)} })

\* a size check that returns the proposal as it came
adjusted_size_unclamped(proposed_size, account_value, max_position_percent, current_price) ==
  proposed_size

\* lines 140-149 of check_position_size
adjusted_size(proposed_size, account_value, max_position_percent, current_price) ==
  FracMin(proposed_size,
          Frac(account_value * max_position_percent, 100 * current_price))

\* check_position_size: the price query is outside any try, so its
\* exception leaves the method.
check_position_size(rm, cache, t, ex, rp, proposed_size) ==
  Only({ Only({ IF p.raised
                  THEN [cache |-> p.cache, raised |-> TRUE, ret |-> Frac(0, 1),
                        account_value |-> b.ret, current_price |-> 0,
                        balance_failed |-> b.failed]
                  ELSE [cache |-> p.cache, raised |-> FALSE,
                        ret |-> adjusted_size(proposed_size, b.ret,
                                          rp.max_position_percent, p.ret),
                        account_value |-> b.ret, current_price |-> p.ret,
                        balance_failed |-> b.failed] :
                p \in {get_current_price(b.cache, t, ex)} }) :
         b \in {_get_current_balance(rm, cache, t, ex, TRUE)} })

\* ======================================================= OrderExecutor
\* a gate that evaluates the risk halt and then ignores it
_can_place_order_throttle_only(oe, rm, cache, t, ex, rp) ==
  IF t - oe.last_order_time < min_order_interval
    THEN [ret |-> FALSE, rm |-> rm, cache |-> cache, gate |-> "throttle",
          account_value |-> 0]
    ELSE Only({ [ret |-> TRUE, rm |-> s.rm, cache |-> s.cache, gate |-> "passed",
                 account_value |-> s.account_value] :
                s \in {should_stop_trading(rm, cache, t, ex, rp)} })

\* _can_place_order at time t: the throttle first, then the risk halt
\* (which is not evaluated when the throttle already refuses).
_can_place_order(oe, rm, cache, t, ex, rp) ==
  IF t - oe.last_order_time < min_order_interval
    THEN [ret |-> FALSE, rm |-> rm, cache |-> cache, gate |-> "throttle",
          account_value |-> 0]
    ELSE Only({ [ret |-> ~s.ret, rm |-> s.rm, cache |-> s.cache,
                 gate |-> IF s.ret THEN "risk" ELSE "passed",
                 account_value |-> s.account_value] :
                s \in {should_stop_trading(rm, cache, t, ex, rp)} })

\* lines 84-91 of execute_order: the rejection result, whose details are
\* computed again, at time t and from the exchange's answer then.
RejectionDetails(oe, rm, cache, t, ex, rp) ==
  Only({ [rm |-> s.rm, cache |-> s.cache,
          time_constraint |-> t - oe.last_order_time < min_order_interval,
          risk_constraint |-> s.ret] :
         s \in {should_stop_trading(rm, cache, t, ex, rp)} })

\* a rejection that restarts the throttle
RejectedExecutorStamped(oe, t) == [oe EXCEPT !.last_order_time = t]

\* lines 83-91 of execute_order: a rejection returns without writing any
\* field of the executor.
RejectedExecutor(oe, t) == oe

\* line 120 of execute_order: the throttle timer is set after place_order
\* has returned; an exception of place_order skips it.
ThrottleTimerAfter(oe, result, t) ==
  IF result = "raised" THEN oe.last_order_time ELSE t

\* an accepted order that is entered as pending
LedgerStatus_pending_on_acceptance(result, price_raised) ==
  IF result = "raised" THEN "error"
  ELSE IF result = "accepted" THEN (IF price_raised THEN "error" ELSE "pending")
  ELSE "failed"

\* lines 123-177 of execute_order: the status of the ledger entry. The
\* price query of the success branch is inside the try.
LedgerStatus(result, price_raised) ==
  IF result = "raised" THEN "error"
  ELSE IF result = "accepted" THEN (IF price_raised THEN "error" ELSE "success")
  ELSE "failed"

\* a submission that is tried again when it was not accepted
place_order_calls_retried(sim, ex) ==
  IF place_order(sim, ex) = "accepted" THEN << place_order(sim, ex) >>
  ELSE << place_order(sim, ex), place_order(sim, ex) >>

\* lines 111-116 of execute_order: the place_order calls of one
\* execute_order call, as the sequence of their results.
place_order_calls(sim, ex) == << place_order(sim, ex) >>

\* lines 108-182 of execute_order: place_order is called at time t
\* (exchange: ex) and returns or raises at time t2 (exchange: ex2), then
\* the ledger entry.
SubmitOrder(oe, cache, t, ex, t2, ex2, sim, order_type, sz) ==
  Only({ Only({ Only({
      [oe |-> [last_order_time |-> ThrottleTimerAfter(oe, calls[Len(calls)], t2),
               order_history |->
                 Append(oe.order_history,
                        [type |-> order_type, size |-> sz,
                         status |-> status,
                         order_id |-> IF status = "success" THEN "ordId" ELSE status])],
       cache |-> p.cache, result |-> calls[Len(calls)], status |-> status,
       success |-> status = "success", place_calls |-> Len(calls),
       place_size |-> sz] :
      status \in {LedgerStatus(calls[Len(calls)], p.raised)} }) :
    p \in {IF calls[Len(calls)] = "accepted" THEN get_current_price(cache, t2, ex2)
           ELSE [cache |-> cache, raised |-> FALSE, ret |-> 0]} }) :
  calls \in {place_order_calls(sim, ex)} })

\* the result of an execute_order call that placed nothing
NothingPlaced(g) ==
  [gate |-> g.gate, gate_value |-> g.account_value, raised |-> FALSE,
   success |-> FALSE, time_constraint |-> FALSE, risk_constraint |-> FALSE,
   place_calls |-> 0, place_size |-> Frac(0, 1), adjusted |-> Frac(0, 1),
   account_value |-> 0, current_price |-> 0,
   result |-> "none", status |-> "none"]

\* execute_order(order_type, size) called at time t with the exchange
\* answering ex. lat seconds pass, and the exchange comes to answer ex2,
\* between the gate and the construction of the rejection (lines 83-88),
\* or else while place_order runs (lines 111-117).
execute_order(oe, rm, cache, t, ex, lat, ex2, sim, rp, order_type, size) ==
  Only({
    IF ~g.ret
      THEN Only({ [oe |-> RejectedExecutor(oe, t + lat), rm |-> d.rm,
                   cache |-> d.cache, t |-> t + lat, ex |-> ex2,
                   info |-> [NothingPlaced(g) EXCEPT
                               !.time_constraint = d.time_constraint,
                               !.risk_constraint = d.risk_constraint]] :
                  d \in {RejectionDetails(oe, g.rm, g.cache, t + lat, ex2, rp)} })
      ELSE Only({
        IF c.raised
          THEN [oe |-> oe, rm |-> g.rm, cache |-> c.cache, t |-> t, ex |-> ex,
                info |-> [NothingPlaced(g) EXCEPT !.raised = TRUE]]
          ELSE Only({ [oe |-> s.oe, rm |-> g.rm, cache |-> s.cache,
                       t |-> t + lat, ex |-> ex2,
                       info |-> [NothingPlaced(g) EXCEPT
                                   !.success = s.success,
                                   !.place_calls = s.place_calls,
                                   !.place_size = s.place_size,
                                   !.adjusted = c.ret,
                                   !.account_value = c.account_value,
                                   !.current_price = c.current_price,
                                   !.result = s.result,
                                   !.status = s.status]] :
                      s \in {SubmitOrder(oe, c.cache, t, ex, t + lat, ex2, sim,
                                         order_type, c.ret)} }) :
        c \in {check_position_size(g.rm, g.cache, t, ex, rp, size)} }) :
    g \in {_can_place_order(oe, rm, cache, t, ex, rp)} })

\* the positions of the ledger entries that carry the identifier order_id
EntriesOf(oe, order_id) ==
  { k \in 1..Len(oe.order_history) : oe.order_history[k].order_id = order_id }

Least(S) == CHOOSE k \in S : \A j \in S : k <= j

\* get_order_status(order_id): the first ledger entry with that identifier,
\* or the not-found result. Nothing is written and nothing can raise.
get_order_status(oe, order_id) ==
  IF EntriesOf(oe, order_id) # {}
    THEN [oe |-> oe, raised |-> FALSE,
          ret |-> [success |-> TRUE,
                   status |-> oe.order_history[Least(EntriesOf(oe, order_id))].status,
                   message |-> "none"]]
    ELSE [oe |-> oe, raised |-> FALSE,
          ret |-> [success |-> FALSE, status |-> "none",
                   message |-> "not found"]]

\* a cancellation that does not look at the status of the entry
cancel_order_any_status(oe, order_id) ==
  IF EntriesOf(oe, order_id) # {}
    THEN [oe |-> [oe EXCEPT !.order_history[Least(EntriesOf(oe, order_id))].status =
                              "cancelled"],
          raised |-> FALSE,
          ret |-> [success |-> TRUE, status |-> "none", message |-> "cancelled"]]
    ELSE [oe |-> oe, raised |-> FALSE,
          ret |-> [success |-> FALSE, status |-> "none",
                   message |-> "cannot cancel"]]

\* the positions of the pending ledger entries that carry order_id
PendingEntriesOf(oe, order_id) ==
  { k \in EntriesOf(oe, order_id) : oe.order_history[k].status = "pending" }

\* cancel_order(order_id): the first pending entry with that identifier
\* becomes cancelled; without one the call fails and writes nothing. The
\* whole body is inside a try whose handler returns a failure.
cancel_order(oe, order_id) ==
  IF PendingEntriesOf(oe, order_id) # {}
    THEN [oe |-> [oe EXCEPT !.order_history[Least(PendingEntriesOf(oe, order_id))].status =
                              "cancelled"],
          raised |-> FALSE,
          ret |-> [success |-> TRUE, status |-> "none", message |-> "cancelled"]]
    ELSE [oe |-> oe, raised |-> FALSE,
          ret |-> [success |-> FALSE, status |-> "none",
                   message |-> "cannot cancel"]]

\* order_history[-limit:], the slice of a Python list: the last limit
\* entries, all of them when limit is 0, and all but the first -limit when
\* limit is negative
LastEntries(history, limit) ==
  IF limit > 0
    THEN SubSeq(history, Max(1, Len(history) - limit + 1), Len(history))
    ELSE SubSeq(history, Min(Len(history), -limit) + 1, Len(history))

\* the entries of a slice, latest first (sort_values by timestamp,
\* descending)
LatestFirst(history) ==
  [k \in 1..Len(history) |-> history[Len(history) + 1 - k]]

\* a table whose construction leaves only the listed entries in the ledger
get_trade_history_truncating(oe, limit) ==
  [oe |-> [oe EXCEPT !.order_history = LastEntries(oe.order_history, limit)],
   raised |-> FALSE,
   rows |-> LatestFirst(LastEntries(oe.order_history, limit))]

\* get_trade_history(limit): the table of the last entries. Only the
\* entries of accepted orders carry a price, and the selection of the price
\* column raises when the table has none. The ledger is only read.
get_trade_history(oe, limit) ==
  IF oe.order_history = << >>
    THEN [oe |-> oe, raised |-> FALSE, rows |-> << >>]
  ELSE IF \A k \in 1..Len(LastEntries(oe.order_history, limit)) :
            LastEntries(oe.order_history, limit)[k].status # "success"
    THEN [oe |-> oe, raised |-> TRUE, rows |-> << >>]
  ELSE [oe |-> oe, raised |-> FALSE,
        rows |-> LatestFirst(LastEntries(oe.order_history, limit))]

\* =========================================================== Backtester
\* ------------------------------------------------- amounts of money
\* The amounts of a backtest (cash, position, equity, cost) are Python
\* floats; they are computed here as exact signed rationals n/d
\* whose numerator and denominator are naturals of any size, written as
\* sequences of digits in base 1000, least significant first, without
\* leading zeros (<<>> is 0).
Base == 1000

RECURSIVE Strip(_)
Strip(a) ==
  IF a = <<>> THEN <<>>
  ELSE IF a[Len(a)] = 0 THEN Strip(SubSeq(a, 1, Len(a) - 1))
  ELSE a

RECURSIVE BigFromInt(_)
BigFromInt(k) == IF k = 0 THEN <<>> ELSE <<k % Base>> \o BigFromInt(k \div Base)

\* a + b + c, c a carry below Base
RECURSIVE BigAddCarry(_, _, _)
BigAddCarry(a, b, c) ==
  IF a = <<>> /\ b = <<>> THEN (IF c = 0 THEN <<>> ELSE <<c>>)
  ELSE IF a = <<>> THEN BigAddCarry(<<0>>, b, c)
  ELSE IF b = <<>> THEN BigAddCarry(a, <<0>>, c)
  ELSE <<(a[1] + b[1] + c) % Base>> \o
       BigAddCarry(Tail(a), Tail(b), (a[1] + b[1] + c) \div Base)

BigAdd(a, b) == BigAddCarry(a, b, 0)

\* a - b - c for a >= b + c, before leading zeros are removed
RECURSIVE BigSubBorrow(_, _, _)
BigSubBorrow(a, b, c) ==
  IF a = <<>> THEN <<>>
  ELSE IF b = <<>> THEN BigSubBorrow(a, <<0>>, c)
  ELSE <<(a[1] - b[1] - c + Base) % Base>> \o
       BigSubBorrow(Tail(a), Tail(b), IF a[1] - b[1] - c < 0 THEN 1 ELSE 0)

BigSub(a, b) == Strip(BigSubBorrow(a, b, 0))

\* a * m + c for a digit m
RECURSIVE BigMulSmallCarry(_, _, _)
BigMulSmallCarry(a, m, c) ==
  IF a = <<>> THEN BigFromInt(c)
  ELSE <<(a[1] * m + c) % Base>> \o
       BigMulSmallCarry(Tail(a), m, (a[1] * m + c) \div Base)

BigMulSmall(a, m) == IF m = 0 THEN <<>> ELSE BigMulSmallCarry(a, m, 0)

\* quotient (with leading zeros) and remainder of a by a Python int m > 0
RECURSIVE BigDivModSmall(_, _)
BigDivModSmall(a, m) ==
  IF a = <<>> THEN [q |-> <<>>, r |-> 0]
  ELSE Only({ [q |-> <<(hi.r * Base + a[1]) \div m>> \o hi.q,
               r |-> (hi.r * Base + a[1]) % m] :
              hi \in {BigDivModSmall(Tail(a), m)} })

BigDivSmall(a, m) == Strip(BigDivModSmall(a, m).q)
BigModSmall(a, m) == BigDivModSmall(a, m).r

RECURSIVE BigMul(_, _)
BigMul(a, b) ==
  IF a = <<>> \/ b = <<>> THEN <<>>
  ELSE BigAdd(BigMulSmall(a, b[1]),
              IF Len(b) = 1 THEN <<>> ELSE <<0>> \o BigMul(a, Tail(b)))

\* -1, 0, 1 as a < b, a = b, a > b, for numbers of the same length
RECURSIVE BigCmpDigits(_, _, _)
BigCmpDigits(a, b, k) ==
  IF k = 0 THEN 0
  ELSE IF a[k] < b[k] THEN -1
  ELSE IF a[k] > b[k] THEN 1
  ELSE BigCmpDigits(a, b, k - 1)

BigCmp(a, b) ==
  IF Len(a) < Len(b) THEN -1
  ELSE IF Len(a) > Len(b) THEN 1
  ELSE BigCmpDigits(a, b, Len(a))

\* The rational n/d of two Python ints (n >= 0, d > 0), and the arithmetic
\* of floats read as exact arithmetic on signed rationals: neg is the sign,
\* n/d the magnitude; zero is never negative.
Rat(n, d) == [neg |-> FALSE, n |-> BigFromInt(n), d |-> BigFromInt(d)]
RatIsZero(x) == x.n = <<>>
RatNeg(x) == IF RatIsZero(x) THEN x ELSE [x EXCEPT !.neg = ~x.neg]
\* -1, 0, 1 as |x| < |y|, |x| = |y|, |x| > |y|
MagCmp(x, y) == BigCmp(BigMul(x.n, y.d), BigMul(y.n, x.d))
RatCmp(x, y) ==
  IF x.neg /\ ~y.neg THEN -1
  ELSE IF ~x.neg /\ y.neg THEN 1
  ELSE IF x.neg THEN MagCmp(y, x)
  ELSE MagCmp(x, y)
RatLE(x, y) == RatCmp(x, y) <= 0
RatLT(x, y) == RatCmp(x, y) < 0
RatEq(x, y) == RatCmp(x, y) = 0
MagAdd(x, y, neg) ==
  IF x.d = y.d THEN [neg |-> neg, n |-> BigAdd(x.n, y.n), d |-> x.d]
  ELSE [neg |-> neg, n |-> BigAdd(BigMul(x.n, y.d), BigMul(y.n, x.d)),
        d |-> BigMul(x.d, y.d)]
\* |x| - |y| for |x| > |y|, with the sign neg
MagSub(x, y, neg) ==
  IF x.d = y.d THEN [neg |-> neg, n |-> BigSub(x.n, y.n), d |-> x.d]
  ELSE [neg |-> neg, n |-> BigSub(BigMul(x.n, y.d), BigMul(y.n, x.d)),
        d |-> BigMul(x.d, y.d)]
RatAdd(x, y) ==
  IF x.neg = y.neg THEN MagAdd(x, y, x.neg /\ ~(RatIsZero(x) /\ RatIsZero(y)))
  ELSE Only({ IF c = 0 THEN [neg |-> FALSE, n |-> <<>>, d |-> BigMul(x.d, y.d)]
              ELSE IF c > 0 THEN MagSub(x, y, x.neg)
              ELSE MagSub(y, x, y.neg) :
              c \in {MagCmp(x, y)} })
RatSub(x, y) == RatAdd(x, RatNeg(y))
\* x * n / d for Python numbers n >= 0 and d > 0, the factors that n
\* shares with the denominator of x and d with its numerator cancelled
RatScale(x, n, d) ==
  IF n = 0 \/ RatIsZero(x) THEN [neg |-> FALSE, n |-> <<>>, d |-> <<1>>]
  ELSE Only({ [neg |-> x.neg,
               n |-> BigMulSmall(BigDivSmall(x.n, gd), n \div gn),
               d |-> BigMulSmall(BigDivSmall(x.d, gn), d \div gd)] :
              gn \in {GCD(n, BigModSmall(x.d, n))},
              gd \in {GCD(d, BigModSmall(x.n, d))} })
\* x / y for y > 0
RatDiv(x, y) == [neg |-> x.neg, n |-> BigMul(x.n, y.d), d |-> BigMul(x.d, y.n)]

\* --------------------------------------------- signals and aggregation
\* signal values, confidences and thresholds are small exact fractions
FracAdd(a, b) == Frac(a.n * b.d + b.n * a.d, a.d * b.d)
FracSub(a, b) == Frac(a.n * b.d - b.n * a.d, a.d * b.d)
FracMul(a, b) == Frac(a.n * b.n, a.d * b.d)
\* a / b for b > 0
FracDiv(a, b) == Frac(a.n * b.d, a.d * b.n)
FracLE(a, b) == a.n * b.d <= b.n * a.d
FracAbs(a) == [n |-> Abs(a.n), d |-> a.d]
FracMax(a, b) == IF FracLT(a, b) THEN b ELSE a
FracZero == Frac(0, 1)
FracOne == Frac(1, 1)

\* what a strategy returns when it has nothing to say
NoSignal == [signal |-> FracZero, confidence |-> FracZero]

\* ConfigManager.config["strategy_params"]["bollinger"]: the defaults with
\* a period of 2 bars, and a configuration with both thresholds at 0.5
BollingerDefaults ==
  [period |-> 2, std_dev |-> 2,
   buy_threshold |-> Frac(3, 10), sell_threshold |-> Frac(7, 10)]
BollingerSymmetric ==
  [period |-> 2, std_dev |-> 2,
   buy_threshold |-> Frac(1, 2), sell_threshold |-> Frac(1, 2)]

\* calculate_bollinger_bands for a period of two bars: the mean of the last
\* two closes, and np.std of two values, which is half their distance
calculate_bollinger_bands(closes, config) ==
  Only({ [upper |-> FracAdd(sma, FracMul(Frac(config.std_dev, 1), std)),
          lower |-> FracSub(sma, FracMul(Frac(config.std_dev, 1), std)),
          width |-> FracMul(Frac(2 * config.std_dev, 1), std)] :
         sma \in {Frac(closes[Len(closes) - 1] + closes[Len(closes)], 2)},
         std \in {Frac(Abs(closes[Len(closes) - 1] - closes[Len(closes)]), 2)} })

\* lines 143-163 of BollingerStrategy.generate_signal
BollingerDecision(price_from_lower, price_from_upper, config) ==
  IF FracLE(price_from_lower, config.buy_threshold)
    THEN Only({ [signal |-> FracMax(Frac(-1, 1), FracMin(FracOne, c)), confidence |-> c] :
                c \in {FracSub(FracOne, FracDiv(price_from_lower, config.buy_threshold))} })
  ELSE IF FracLE(price_from_upper, config.sell_threshold)
    THEN Only({ [signal |-> FracMax(Frac(-1, 1), FracMin(FracOne, FracSub(FracZero, c))),
                 confidence |-> c] :
                c \in {FracSub(FracOne, FracDiv(price_from_upper, config.sell_threshold))} })
  ELSE NoSignal

\* BollingerStrategy.generate_signal on the candles and the ticker price
\* that self.market_data answers
Bollinger_generate_signal(candles, current_price, config) ==
  IF Len(candles) < config.period THEN NoSignal
  ELSE Only({ IF bands.width.n <= 0 THEN NoSignal
              ELSE BollingerDecision(
                     FracDiv(FracSub(Frac(current_price, 1), bands.lower), bands.width),
                     FracDiv(FracSub(bands.upper, Frac(current_price, 1)), bands.width),
                     config) :
              bands \in {calculate_bollinger_bands(candles, config)} })

\* a producer that is always bullish with confidence 1.0
AlwaysBullish_generate_signal == [signal |-> FracOne, confidence |-> FracOne]

\* config.get("strategy_weights", {}) of a configuration without the key
NoWeights == << >>

\* a lookup that ignores the configured weights
WeightOf_unconfigured(s, weights, default_weight) == default_weight

\* line 80: weights.get(strategy_name, 1.0/len(strategy_signals))
WeightOf(s, weights, default_weight) ==
  IF s.strategy \in DOMAIN weights THEN weights[s.strategy] ELSE default_weight

\* lines 70-96 of combine_signals: the sums over the signals whose
\* confidence is positive, each with its configured weight or the weight
\* 1/N of an unconfigured strategy
RECURSIVE WeightedSums(_, _, _)
WeightedSums(strategy_signals, weights, default_weight) ==
  IF strategy_signals = <<>>
    THEN [weighted_signal |-> FracZero, total_weight |-> FracZero,
          total_confidence |-> FracZero]
  ELSE Only({ IF s.confidence.n > 0
                THEN [weighted_signal |->
                        FracAdd(FracMul(FracMul(s.signal, s.confidence), weight),
                                rest.weighted_signal),
                      total_weight |->
                        FracAdd(FracMul(s.confidence, weight), rest.total_weight),
                      total_confidence |->
                        FracAdd(FracMul(s.confidence, weight), rest.total_confidence)]
                ELSE rest :
              s \in {Head(strategy_signals)},
              weight \in {WeightOf(Head(strategy_signals), weights, default_weight)},
              rest \in {WeightedSums(Tail(strategy_signals), weights, default_weight)} })

\* a list with the reason of every signal of positive confidence
Reasons_of_every_value(strategy_signals) ==
  SelectSeq([k \in 1..Len(strategy_signals) |->
               [strategy |-> strategy_signals[k].strategy,
                confidence |-> strategy_signals[k].confidence]],
            LAMBDA r : r.confidence.n > 0)

\* lines 85-88 of combine_signals: the list reasons, to which the loop
\* appends, for each signal with confidence > 0 and signal_value != 0, a
\* string made of the strategy name, its reason and its confidence
RECURSIVE Reasons(_)
Reasons(strategy_signals) ==
  IF strategy_signals = << >> THEN << >>
  ELSE Only({ IF s.confidence.n > 0 /\ s.signal.n # 0
                THEN << [strategy |-> s.strategy, confidence |-> s.confidence] >>
                       \o Reasons(Tail(strategy_signals))
                ELSE Reasons(Tail(strategy_signals)) :
              s \in {Head(strategy_signals)} })

\* SignalCombiner.combine_signals
combine_signals(strategy_signals, weights) ==
  Only({ IF t.total_weight.n > 0
           THEN [final_signal |-> FracDiv(t.weighted_signal, t.total_weight),
                 confidence |->
                   FracMax(FracZero,
                           FracMin(FracOne, FracDiv(t.total_confidence, t.total_weight))),
                 reasons |-> Reasons(strategy_signals)]
           ELSE [final_signal |-> FracZero, confidence |-> FracZero,
                 reasons |-> Reasons(strategy_signals)] :
         t \in {WeightedSums(strategy_signals, weights,
                             Frac(1, Max(1, Len(strategy_signals))))} })

\* the default of the parameter threshold of should_trade
DefaultThreshold == Frac(3, 10)

\* a gate that looks at the signal strength only
should_trade_any_confidence(combined_signal, threshold) ==
  FracLE(threshold, FracAbs(combined_signal.final_signal))

\* SignalCombiner.should_trade
should_trade(combined_signal, threshold) ==
  /\ FracLE(threshold, FracAbs(combined_signal.final_signal))
  /\ FracLE(Frac(2, 10), combined_signal.confidence)

\* a combiner that sells on a positive signal and buys otherwise
determine_order_type_reversed(signal) == IF signal.n > 0 THEN "sell" ELSE "buy"

\* SignalCombiner.determine_order_type
determine_order_type(signal) == IF signal.n > 0 THEN "buy" ELSE "sell"

\* a sizing that takes abs(signal) * 2 unclamped
calculate_position_size_unclamped(signal, account_value, current_price) ==
  Only({ RatScale(RatScale(account_value, signal_factor.n, 100 * signal_factor.d),
                  1, current_price) :
         signal_factor \in {FracMul(FracAbs(signal), Frac(2, 1))} })

\* SignalCombiner.calculate_position_size: 1% of the account value times
\* min(3.0, max(0.5, abs(signal) * 2)), in DOGE at the current price
calculate_position_size(signal, account_value, current_price) ==
  Only({ RatScale(RatScale(account_value, signal_factor.n, 100 * signal_factor.d),
                  1, current_price) :
         signal_factor \in {FracMin(Frac(3, 1),
                                    FracMax(Frac(1, 2),
                                            FracMul(FracAbs(signal), Frac(2, 1))))} })

\* ==================================================== run_trading_system
\* get_risk_metrics: the balance, should_stop_trading, the balance again
\* and the price; the last query is outside any try.
get_risk_metrics(rm, cache, t, ex, rp) ==
  Only({ Only({ Only({ Only({
      [rm |-> s.rm, cache |-> p.cache, raised |-> p.raised,
       account_value |-> b.ret, should_stop |-> s.ret,
       balance_failed |-> b.failed,
       second_value |-> b2.ret, second_failed |-> b2.failed] :
      p \in {get_current_price(b2.cache, t, ex)} }) :
    b2 \in {_get_current_balance(s.rm, s.cache, t, ex, TRUE)} }) :
  s \in {should_stop_trading(rm, b.cache, t, ex, rp)} }) :
  b \in {_get_current_balance(rm, cache, t, ex, TRUE)} })

\* a price step without the log line of line 71
RunnerPriceStep_without_log(cache, t, ex) ==
  Only({ [cache |-> p.cache, raised |-> p.raised, answered |-> ~p.raised,
          ret |-> p.ret] :
         p \in {get_current_price(cache, t, ex)} })

\* lines 69-75 of run_trading_system: the price query, then a log line that
\* reads OKX_CONFIG, a name system_runner.py never imports: the NameError
\* lands in the handler of line 72, as a failed query does. The step
\* raises whatever the query answered.
RunnerPriceStep(cache, t, ex) ==
  Only({ [cache |-> p.cache, raised |-> TRUE, answered |-> ~p.raised,
          ret |-> p.ret] :
         p \in {get_current_price(cache, t, ex)} })

\* a float that is a small fraction, from its exact value
RECURSIVE FracOfBig(_)
FracOfBig(a) == IF a = << >> THEN 0 ELSE Head(a) + Base * FracOfBig(Tail(a))
FracOfRat(x) ==
  Frac((IF x.neg THEN -1 ELSE 1) * FracOfBig(x.n), FracOfBig(x.d))

\* the cycle placed no order
NoTrade(oe, rm, cache) ==
  [oe |-> oe, rm |-> rm, cache |-> cache, should_trade |-> FALSE,
   execute_calls |-> 0, place_calls |-> 0, order_type |-> "none",
   position_size |-> FracZero]

\* lines 77-110 of run_trading_system: the signals of the enabled
\* strategies are combined (no weights are configured), and when
\* should_trade says so, the side and the size are derived from the
\* combined signal, the account value of the risk metrics and the current
\* price, and execute_order is called once.
TradeStep(oe, rm, cache, t, ex, sim, rp, strategy_signals, account_value, current_price) ==
  Only({
    IF ~should_trade(combined_signal, DefaultThreshold)
      THEN NoTrade(oe, rm, cache)
      ELSE Only({ Only({
          [oe |-> r.oe, rm |-> r.rm, cache |-> r.cache, should_trade |-> TRUE,
           execute_calls |-> 1, place_calls |-> r.info.place_calls,
           order_type |-> determine_order_type(combined_signal.final_signal),
           position_size |-> position_size] :
          r \in {execute_order(oe, rm, cache, t, ex, 0, ex, sim, rp,
                               determine_order_type(combined_signal.final_signal),
                               position_size)} }) :
        position_size \in
          {FracOfRat(calculate_position_size(combined_signal.final_signal,
                                             Rat(account_value, 1),
                                             current_price))} }) :
    combined_signal \in {combine_signals(strategy_signals, NoWeights)} })

\* the calls one iteration makes, in order, by how far it got
MetricsCalls == <<"update_metrics", "get_risk_metrics">>
SignalCalls == <<"get_current_price", "generate_signal", "combine_signals">>
OrderCalls == <<"calculate_position_size", "execute_order">>

\* an iteration that collects and combines the signals before it looks at
\* should_stop
RunCycle_aggregating_before_halt_check(oe, rm, cache, t, ex, sim, rp, strategy_signals) ==
  Only({ Only({
      IF m.raised
        THEN NoTrade(oe, m.rm, m.cache)
               @@ [outcome |-> "terminated", price_answered |-> FALSE,
                   should_stop |-> FALSE, calls |-> MetricsCalls]
      ELSE IF m.should_stop
        THEN NoTrade(oe, m.rm, m.cache)
               @@ [outcome |-> "halted", price_answered |-> FALSE,
                   should_stop |-> TRUE,
                   calls |-> MetricsCalls \o <<"generate_signal", "combine_signals">>]
      ELSE Only({
        IF p.raised
          THEN NoTrade(oe, m.rm, p.cache)
                 @@ [outcome |-> "skipped", price_answered |-> p.answered,
                     should_stop |-> FALSE,
                     calls |-> MetricsCalls \o <<"get_current_price">>]
          ELSE Only({
            r @@ [outcome |-> "completed", price_answered |-> TRUE,
                  should_stop |-> FALSE,
                  calls |-> MetricsCalls \o SignalCalls \o
                            (IF r.execute_calls = 1 THEN OrderCalls ELSE << >>)] :
            r \in {TradeStep(oe, m.rm, p.cache, t, ex, sim, rp,
                             strategy_signals, m.account_value, p.ret)} }) :
        p \in {RunnerPriceStep(m.cache, t, ex)} }) :
    m \in {get_risk_metrics(u.rm, u.cache, t, ex, rp)} }) :
  u \in {update_metrics(rm, cache, t, ex, ex, rp)} })

\* lines 53-120 of run_trading_system: one iteration at time t, in which
\* the enabled strategies answer strategy_signals. update_metrics comes
\* first (line 59). An exception of get_risk_metrics leaves the while loop
\* (handler of line 124). When the metrics report should_stop the
\* iteration sleeps and continues (lines 63-66). The price step ends in
\* its handler (sleep, continue) before lines 77-110 (signals,
\* aggregation, execute_order, called once at line 104).
RunCycle(oe, rm, cache, t, ex, sim, rp, strategy_signals) ==
  Only({ Only({
      IF m.raised
        THEN NoTrade(oe, m.rm, m.cache)
               @@ [outcome |-> "terminated", price_answered |-> FALSE,
                   should_stop |-> FALSE, calls |-> MetricsCalls]
      ELSE IF m.should_stop
        THEN NoTrade(oe, m.rm, m.cache)
               @@ [outcome |-> "halted", price_answered |-> FALSE,
                   should_stop |-> TRUE, calls |-> MetricsCalls]
      ELSE Only({
        IF p.raised
          THEN NoTrade(oe, m.rm, p.cache)
                 @@ [outcome |-> "skipped", price_answered |-> p.answered,
                     should_stop |-> FALSE,
                     calls |-> MetricsCalls \o <<"get_current_price">>]
          ELSE Only({
            r @@ [outcome |-> "completed", price_answered |-> TRUE,
                  should_stop |-> FALSE,
                  calls |-> MetricsCalls \o SignalCalls \o
                            (IF r.execute_calls = 1 THEN OrderCalls ELSE << >>)] :
            r \in {TradeStep(oe, m.rm, p.cache, t, ex, sim, rp,
                             strategy_signals, m.account_value, p.ret)} }) :
        p \in {RunnerPriceStep(m.cache, t, ex)} }) :
    m \in {get_risk_metrics(u.rm, u.cache, t, ex, rp)} }) :
  u \in {update_metrics(rm, cache, t, ex, ex, rp)} })

\* -------------------------------------------------------- run_backtest
\* df['close'].iloc[i]
Close(df, i) == df[i + 1]

\* What the registered strategies read. register_strategies (line 137) is
\* given self.market_data, the exchange, and generate_signal (line 173)
\* asks it for the latest candles and the ticker price: the candles of the
\* historical series followed by those the date filter left out, and the
\* close of the latest candle. The MockMarketData of line 167, which ends
\* at bar i, is handed to nobody.
ExchangeCandles(run) == run.df \o run.later

generate_signal(strategy, candles, config) ==
  IF strategy = "bollinger"
    THEN Bollinger_generate_signal(candles, candles[Len(candles)], config)
    ELSE AlwaysBullish_generate_signal

\* lines 170-175
StrategySignals(run) ==
  [k \in 1..Len(run.strategies) |->
     Only({ [strategy |-> run.strategies[k], signal |-> s.signal,
             confidence |-> s.confidence] :
            s \in {generate_signal(run.strategies[k], ExchangeCandles(run),
                                   run.config)} })]

\* a buy that is executed whatever the cash
BuyCovered_unchecked(current_cash, cost) == TRUE

\* line 193: current_cash >= position_size * current_price * (1 + commission)
BuyCovered(current_cash, cost) == RatLE(cost, current_cash)

\* line 212: current_position >= position_size
SellCovered(current_position, position_size) == RatLE(position_size, current_position)

\* position_size * current_price * (1 + self.commission)
BuyCost(position_size, current_price) ==
  RatScale(RatScale(position_size, current_price, 1), 1001, 1000)
\* a sale that is credited in full
SellRevenue_without_commission(position_size, current_price) ==
  RatScale(position_size, current_price, 1)
\* position_size * current_price * (1 - self.commission)
SellRevenue(position_size, current_price) ==
  RatScale(RatScale(position_size, current_price, 1), 999, 1000)

\* lines 192-229: the trade of one bar, if any. The trade record holds
\* the cash moved (cost of a buy, revenue of a sell), the gross value and
\* the commission: cost * self.commission on a buy (line 207),
\* position_size * current_price * self.commission on a sell (line 226).
ExecuteTrade(order_type, position_size, current_price, current_cash, current_position, i) ==
  IF order_type = "buy" /\
     BuyCovered(current_cash, BuyCost(position_size, current_price))
    THEN [current_cash |->
            RatSub(current_cash, BuyCost(position_size, current_price)),
          current_position |-> RatAdd(current_position, position_size),
          trades |-> << [type |-> "buy", size |-> position_size,
                         price |-> current_price, bar |-> i,
                         cost |-> BuyCost(position_size, current_price),
                         value |-> RatScale(position_size, current_price, 1),
                         commission |->
                           RatScale(BuyCost(position_size, current_price),
                                    1, 1000)] >>,
          wanted |-> order_type]
  ELSE IF order_type = "sell" /\ SellCovered(current_position, position_size)
    THEN [current_cash |->
            RatAdd(current_cash, SellRevenue(position_size, current_price)),
          current_position |-> RatSub(current_position, position_size),
          trades |-> << [type |-> "sell", size |-> position_size,
                         price |-> current_price, bar |-> i,
                         revenue |-> SellRevenue(position_size, current_price),
                         value |-> RatScale(position_size, current_price, 1),
                         commission |->
                           RatScale(RatScale(position_size, current_price, 1),
                                    1, 1000)] >>,
          wanted |-> order_type]
  ELSE [current_cash |-> current_cash, current_position |-> current_position,
        trades |-> <<>>, wanted |-> order_type]

\* lines 177-229: the decision of bar i and its execution
TradeOfBar(run) ==
  Only({ IF should_trade(combined_signal, DefaultThreshold)
           THEN ExecuteTrade(
                  determine_order_type(combined_signal.final_signal),
                  calculate_position_size(
                    combined_signal.final_signal,
                    RatAdd(run.current_cash,
                           RatScale(run.current_position, Close(run.df, run.i), 1)),
                    Close(run.df, run.i)),
                  Close(run.df, run.i), run.current_cash, run.current_position,
                  run.i)
           ELSE [wanted |-> "none", current_cash |-> run.current_cash,
                 current_position |-> run.current_position, trades |-> <<>>] :
         combined_signal \in {combine_signals(StrategySignals(run), NoWeights)} })

\* a loop body that marks the portfolio at the close of the bar before
SimulateBar_marked_at_previous_close(run) ==
  Only({ [run EXCEPT
            !.current_cash = t.current_cash,
            !.current_position = t.current_position,
            !.trade_log = @ \o t.trades,
            !.positions[run.i + 1] = t.current_position,
            !.cash[run.i + 1] = t.current_cash,
            !.portfolio_value[run.i + 1] =
               RatAdd(t.current_cash,
                      RatScale(t.current_position, Close(run.df, run.i - 1), 1)),
            !.wanted = t.wanted,
            !.traded = t.trades # <<>>,
            !.cash_before = run.current_cash,
            !.position_before = run.current_position,
            !.i = run.i + 1] :
         t \in {TradeOfBar(run)} })

\* lines 163-234: the body of the loop for bar i
SimulateBar(run) ==
  Only({ [run EXCEPT
            !.current_cash = t.current_cash,
            !.current_position = t.current_position,
            !.trade_log = @ \o t.trades,
            !.positions[run.i + 1] = t.current_position,
            !.cash[run.i + 1] = t.current_cash,
            !.portfolio_value[run.i + 1] =
               RatAdd(t.current_cash,
                      RatScale(t.current_position, Close(run.df, run.i), 1)),
            !.wanted = t.wanted,
            !.traded = t.trades # <<>>,
            !.cash_before = run.current_cash,
            !.position_before = run.current_position,
            !.i = run.i + 1] :
         t \in {TradeOfBar(run)} })

\* ---------------------------------------------- the performance report
RatMax(x, y) == IF x = y THEN x ELSE IF RatLT(x, y) THEN y ELSE x
RatMin(x, y) == IF x = y THEN x ELSE IF RatLT(y, x) THEN y ELSE x

\* a peak that stays at the first value of the series
cummax_of_first(values) == [k \in 1..Len(values) |-> values[1]]

\* portfolio_value.cummax(): the running maximum, computed on the two
\* halves of the series
RECURSIVE cummax(_)
cummax(values) ==
  IF Len(values) <= 1 THEN values
  ELSE Only({ left \o [k \in 1..Len(right) |-> RatMax(left[Len(left)], right[k])] :
              left \in {cummax(SubSeq(values, 1, Len(values) \div 2))},
              right \in {cummax(SubSeq(values, Len(values) \div 2 + 1, Len(values)))} })

\* line 242: portfolio_value / portfolio_value.cummax() - 1
Drawdown(portfolio_value) ==
  Only({ [k \in 1..Len(portfolio_value) |->
            RatSub(RatDiv(portfolio_value[k], peaks[k]), Rat(1, 1))] :
         peaks \in {cummax(portfolio_value)} })

\* drawdown.min(), computed on the two halves of the series
RECURSIVE SeriesMin(_)
SeriesMin(values) ==
  IF Len(values) = 1 THEN values[1]
  ELSE Only({ RatMin(left, right) :
              left \in {SeriesMin(SubSeq(values, 1, Len(values) \div 2))},
              right \in {SeriesMin(SubSeq(values, Len(values) \div 2 + 1, Len(values)))} })

\* the loop of lines 252-259 without the test on the trade before: every
\* sell after the first trade is compared with the trade before it
RECURSIVE PairSums_of_every_sell(_, _)
PairSums_of_every_sell(trade_log, k) ==
  IF k < 2 THEN [winning_trades |-> 0, total_pnl |-> FracZero]
  ELSE Only({ IF trade_log[k].type = "sell"
                THEN Only({ [winning_trades |->
                               rest.winning_trades + (IF pnl.n > 0 THEN 1 ELSE 0),
                             total_pnl |-> FracAdd(rest.total_pnl, pnl)] :
                            pnl \in {Frac((trade_log[k].price - trade_log[k - 1].price) * 100,
                                          trade_log[k - 1].price)} })
                ELSE rest :
              rest \in {PairSums_of_every_sell(trade_log, k - 1)} })

\* lines 252-259: the trades k (k >= 2) that are a sell right after a buy,
\* their number of winners and the sum of their percentage gains
RECURSIVE PairSums(_, _)
PairSums(trade_log, k) ==
  IF k < 2 THEN [winning_trades |-> 0, total_pnl |-> FracZero]
  ELSE Only({ IF trade_log[k].type = "sell" /\ trade_log[k - 1].type = "buy"
                THEN Only({ [winning_trades |->
                               rest.winning_trades + (IF pnl.n > 0 THEN 1 ELSE 0),
                             total_pnl |-> FracAdd(rest.total_pnl, pnl)] :
                            pnl \in {Frac((trade_log[k].price - trade_log[k - 1].price) * 100,
                                          trade_log[k - 1].price)} })
                ELSE rest :
              rest \in {PairSums(trade_log, k - 1)} })

\* lines 245-265: the trade statistics
TradeStatistics(trade_log) ==
  Only({ [num_trades |-> Len(trade_log),
          winning_trades |-> sums.winning_trades,
          total_pnl |-> sums.total_pnl,
          win_rate |->
            IF Len(trade_log) > 1
              THEN Frac(sums.winning_trades * 100, Len(trade_log) \div 2)
              ELSE FracZero,
          avg_return_per_trade |->
            IF Len(trade_log) > 1
              THEN FracDiv(sums.total_pnl, Frac(Len(trade_log) \div 2, 1))
              ELSE FracZero] :
         sums \in {PairSums(trade_log, Len(trade_log))} })

\* lines 236-293: the report
Report(run) ==
  Only({ [final_value |-> run.portfolio_value[Len(run.portfolio_value)],
          total_return |->
            RatScale(RatSub(RatDiv(run.portfolio_value[Len(run.portfolio_value)],
                                   Rat(run.initial_capital, 1)),
                            Rat(1, 1)), 100, 1),
          drawdown |-> drawdown,
          max_drawdown |-> RatScale(SeriesMin(drawdown), 100, 1),
          num_trades |-> stats.num_trades,
          win_rate |-> stats.win_rate,
          avg_return_per_trade |-> stats.avg_return_per_trade,
          trade_log |-> run.trade_log,
          portfolio_value |-> run.portfolio_value] :
         drawdown \in {Drawdown(run.portfolio_value)},
         stats \in {TradeStatistics(run.trade_log)} })

\* ========================================================= ConfigManager
\* The configuration is a dict: the list active_strategies, the dict
\* strategy_params (here: the enabled flag of each strategy that has an
\* entry) and the dict risk_management, which a configuration file may
\* lack as a whole (present = FALSE) or in part. _load_config returns the
\* file as it is, or else the default configuration.
RiskKeys == {"max_position_percent", "max_daily_loss", "stop_loss_percent",
             "take_profit_ratio"}

RiskDefault(key) ==
  CASE key = "max_position_percent" -> DefaultMaxPositionPercent
    [] key = "max_daily_loss" -> DefaultMaxDailyLoss
    [] key = "stop_loss_percent" -> DefaultStopLossPercent
    [] key = "take_profit_ratio" -> DefaultTakeProfitRatio

default_config ==
  [active_strategies |-> <<"bollinger", "breakout", "multi_timeframe">>,
   strategy_params |->
     [s \in {"bollinger", "breakout", "multi_timeframe", "twitter_sentiment"} |->
        TRUE],
   risk_management |->
     [present |-> TRUE, params |-> [key \in RiskKeys |-> RiskDefault(key)]]]

InList(x, list) == \E k \in 1..Len(list) : list[k] = x

\* list.remove(x): the list without the first x
RECURSIVE Remove(_, _)
Remove(list, x) ==
  IF list = << >> THEN << >>
  ELSE IF Head(list) = x THEN Tail(list)
  ELSE << Head(list) >> \o Remove(Tail(list), x)

\* a lookup that answers False for a strategy without an entry
is_strategy_enabled_tolerant(config, strategy_name) ==
  [raised |-> FALSE,
   ret |-> /\ InList(strategy_name, config.active_strategies)
           /\ strategy_name \in DOMAIN config.strategy_params
           /\ config.strategy_params[strategy_name]]

\* is_strategy_enabled: membership in active_strategies and, only for a
\* member, strategy_params[strategy_name]["enabled"], an index that raises
\* KeyError for a strategy without an entry.
is_strategy_enabled(config, strategy_name) ==
  IF ~InList(strategy_name, config.active_strategies)
    THEN [raised |-> FALSE, ret |-> FALSE]
  ELSE IF strategy_name \notin DOMAIN config.strategy_params
    THEN [raised |-> TRUE, ret |-> FALSE]
  ELSE [raised |-> FALSE, ret |-> config.strategy_params[strategy_name]]

\* update_strategy_status: the list first, then the flag of a strategy
\* that has an entry; for one without an entry a warning is printed and
\* the list stays as it was just changed.
update_strategy_status(config, strategy_name, enabled) ==
  Only({ IF strategy_name \in DOMAIN config.strategy_params
           THEN [config EXCEPT !.active_strategies = active,
                               !.strategy_params[strategy_name] = enabled]
           ELSE [config EXCEPT !.active_strategies = active] :
         active \in
           {IF enabled /\ ~InList(strategy_name, config.active_strategies)
              THEN Append(config.active_strategies, strategy_name)
            ELSE IF ~enabled /\ InList(strategy_name, config.active_strategies)
              THEN Remove(config.active_strategies, strategy_name)
            ELSE config.active_strategies} })

\* get_risk_params: config["risk_management"].copy(), an index that raises
\* KeyError when the record is missing.
get_risk_params(config) ==
  IF config.risk_management.present
    THEN [raised |-> FALSE, ret |-> config.risk_management.params]
    ELSE [raised |-> TRUE, ret |-> << >>]

\* a read that falls back to the default for a missing record as well
RiskParam_tolerant(config, key) ==
  [raised |-> FALSE,
   ret |-> IF /\ config.risk_management.present
              /\ key \in DOMAIN config.risk_management.params
             THEN config.risk_management.params[key]
             ELSE RiskDefault(key)]

\* the read of the risk governor: get_risk_params().get(key, default)
RiskParam(config, key) ==
  Only({ IF r.raised THEN [raised |-> TRUE, ret |-> 0]
         ELSE [raised |-> FALSE,
               ret |-> IF key \in DOMAIN r.ret THEN r.ret[key]
                       ELSE RiskDefault(key)] :
         r \in {get_risk_params(config)} })

\* ============================================================== actions
PositionPercents == {5, 10}
DailyLossLimits == {3, 5}
ProposedSizes == {Frac(10, 1), Frac(60, 1)}
OrderRequests == { [type |-> "buy", size |-> Frac(10, 1)],
                   [type |-> "sell", size |-> Frac(60, 1)] }
GatewayRequests == { [type |-> "buy", size |-> Frac(60, 1)] }

\* what the exchange may answer a little later, given what it answers now
Drift(ex) == {ex} \cup {[ex EXCEPT !.code = c] : c \in Codes}
                  \cup {[ex EXCEPT !.price = p] : p \in Prices}

NoCall == [op |-> "none"]
\* no backtest has been requested
NoRun == [pc |-> "none"]

InitLive ==
  /\ now = StartTime
  /\ ticks = 0
  /\ exchange \in Exchanges
  /\ simulation_mode \in BOOLEAN
  /\ risk_params = [max_position_percent |-> DefaultMaxPositionPercent,
                    max_daily_loss |-> DefaultMaxDailyLoss]
  /\ \E r \in {RiskManager__init__([price |-> 0, timestamp |-> 0], now, exchange)} :
       /\ risk_manager = r.rm
       /\ price_cache = r.cache
  /\ order_executor = [last_order_time |-> 0, order_history |-> <<>>]
  /\ running = TRUE
  /\ last_place_time = 0
  /\ window_event = "none"
  /\ last = NoCall

Init ==
  /\ InitLive
  /\ backtest = NoRun
  /\ replay = NoRun

\* the clock
Advance(dt, max) ==
  /\ ticks < max
  /\ now' = now + dt
  /\ ticks' = ticks + 1
  /\ last' = NoCall
  /\ UNCHANGED <<exchange, simulation_mode, price_cache, risk_params,
                 risk_manager, order_executor, running, last_place_time,
                 window_event, backtest, replay>>

Tick(dt) == Advance(dt, MaxTicks)
TickDay(dt) == Advance(dt, MaxRiskTicks)

\* the market and the network change
ExchangeChange(ex) ==
  /\ ex # exchange
  /\ exchange' = ex
  /\ last' = NoCall
  /\ UNCHANGED <<now, ticks, simulation_mode, price_cache, risk_params,
                 risk_manager, order_executor, running, last_place_time,
                 window_event, backtest, replay>>

\* ConfigManager.update_risk_params
update_risk_params(params) ==
  /\ risk_params' = params
  /\ risk_params' # risk_params
  /\ last' = NoCall
  /\ UNCHANGED <<now, ticks, exchange, simulation_mode, price_cache,
                 risk_manager, order_executor, running, last_place_time,
                 window_event, backtest, replay>>

UpdateMetricsCall(ex2) ==
  \E r \in {update_metrics(risk_manager, price_cache, now, exchange, ex2, risk_params)} :
     /\ risk_manager' = r.rm
     /\ price_cache' = r.cache
     /\ exchange' = ex2
     /\ window_event' = IF r.reset /\ risk_manager.max_daily_loss_reached
                          THEN "reset" ELSE window_event
     /\ last' = [op |-> "update_metrics",
                 age |-> now - risk_manager.daily_reset_time,
                 current_balance |-> r.current_balance,
                 balance_failed |-> r.balance_failed,
                 last_balance_read |-> r.last_balance_read,
                 reset |-> r.reset,
                 reset_failed |-> r.reset_failed,
                 reset_balance |-> r.reset_balance,
                 last_balance_before |-> risk_manager.last_balance,
                 initial_before |-> risk_manager.initial_balance,
                 reset_time_before |-> risk_manager.daily_reset_time]
     /\ UNCHANGED <<now, ticks, simulation_mode, risk_params, order_executor,
                    running, last_place_time, backtest, replay>>

ShouldStopTradingCall ==
  \E r \in {should_stop_trading(risk_manager, price_cache, now, exchange, risk_params)} :
     /\ risk_manager' = r.rm
     /\ price_cache' = r.cache
     /\ window_event' = "none"
     /\ last' = [op |-> "should_stop_trading", ret |-> r.ret,
                 account_value |-> r.account_value,
                 balance_failed |-> r.balance_failed,
                 last_balance_before |-> risk_manager.last_balance,
                 tripped_before |-> risk_manager.max_daily_loss_reached,
                 after_reset |-> window_event = "reset"]
     /\ UNCHANGED <<now, ticks, exchange, simulation_mode, risk_params,
                    order_executor, running, last_place_time, backtest, replay>>

CheckPositionSizeCall(size) ==
  \E r \in {check_position_size(risk_manager, price_cache, now, exchange, risk_params, size)} :
     /\ price_cache' = r.cache
     /\ last' = [op |-> "check_position_size", raised |-> r.raised, proposed |-> size,
                 ret |-> r.ret, account_value |-> r.account_value,
                 balance_failed |-> r.balance_failed,
                 last_balance_before |-> risk_manager.last_balance,
                 current_price |-> r.current_price]
     /\ UNCHANGED <<now, ticks, exchange, simulation_mode, risk_params,
                    risk_manager, order_executor, running, last_place_time,
                    window_event, backtest, replay>>

ExecuteOrderCall(order_type, size, lat, ex2) ==
  \E r \in {execute_order(order_executor, risk_manager, price_cache, now, exchange,
                        lat, ex2, simulation_mode, risk_params, order_type, size)} :
     /\ Len(order_executor.order_history) < MaxOrders
     /\ lat > 0 => ticks <= MaxTicks
     /\ ticks' = ticks + (IF lat > 0 THEN 1 ELSE 0)
     /\ now + lat = r.t /\ ex2 = r.ex
     /\ order_executor' = r.oe
     /\ risk_manager' = r.rm
     /\ price_cache' = r.cache
     /\ now' = r.t
     /\ exchange' = r.ex
     /\ last_place_time' = IF r.info.place_calls > 0 THEN now ELSE last_place_time
     /\ window_event' = "none"
     /\ last' = [op |-> "execute_order", proposed |-> size,
                 timer_before |-> order_executor.last_order_time,
                 history_before |-> order_executor.order_history,
                 gate_initial |-> risk_manager.initial_balance,
                 prev_place_time |-> last_place_time,
                 info |-> r.info]
     /\ UNCHANGED <<simulation_mode, risk_params, running, backtest, replay>>

\* a call that reads or writes the ledger and nothing else
LedgerCall(op, order_id, limit, r) ==
  /\ order_executor' = r.oe
  /\ last' = [op |-> op, order_id |-> order_id, limit |-> limit,
              history_before |-> order_executor.order_history,
              cache_before |-> price_cache,
              raised |-> r.raised, ret |-> r.ret]
  /\ UNCHANGED <<now, ticks, exchange, simulation_mode, price_cache,
                 risk_params, risk_manager, running, last_place_time,
                 window_event, backtest, replay>>

GetOrderStatusCall(order_id) ==
  \E r \in {get_order_status(order_executor, order_id)} :
     LedgerCall("get_order_status", order_id, 0, r)

CancelOrderCall(order_id) ==
  \E r \in {cancel_order(order_executor, order_id)} :
     LedgerCall("cancel_order", order_id, 0, r)

GetTradeHistoryCall(limit) ==
  \E r \in {get_trade_history(order_executor, limit)} :
     LedgerCall("get_trade_history", "none", limit,
                [oe |-> r.oe, raised |-> r.raised,
                 ret |-> [success |-> ~r.raised, status |-> "none",
                          message |-> "none", rows |-> r.rows]])

\* RiskManager(market_data, config_manager): a governor is constructed
RiskManagerConstruct ==
  \E r \in {RiskManager__init__(price_cache, now, exchange)} :
     /\ risk_manager' = r.rm
     /\ price_cache' = r.cache
     /\ window_event' = "none"
     /\ last' = [op |-> "__init__", balance_failed |-> r.balance_failed,
                 initial_balance |-> r.rm.initial_balance]
     /\ UNCHANGED <<now, ticks, exchange, simulation_mode, risk_params,
                    order_executor, running, last_place_time, backtest, replay>>

GetRiskMetricsCall ==
  \E r \in {get_risk_metrics(risk_manager, price_cache, now, exchange, risk_params)} :
     /\ risk_manager' = r.rm
     /\ price_cache' = r.cache
     /\ window_event' = "none"
     /\ last' = [op |-> "get_risk_metrics", raised |-> r.raised,
                 account_value |-> r.account_value,
                 balance_failed |-> r.balance_failed,
                 second_value |-> r.second_value,
                 second_failed |-> r.second_failed,
                 last_balance_before |-> risk_manager.last_balance]
     /\ UNCHANGED <<now, ticks, exchange, simulation_mode, risk_params,
                    order_executor, running, last_place_time, backtest, replay>>

\* a request run_backtest(start_date, end_date, initial_capital) on the
\* series df that _prepare_historical_data returns, while the exchange
\* holds the candles later beyond end_date
NewRun(df, later, strategies, config, initial_capital) ==
  [pc |-> "ready", df |-> df, later |-> later, strategies |-> strategies,
   config |-> config, initial_capital |-> initial_capital,
   i |-> 0, current_cash |-> Rat(0, 1), current_position |-> Rat(0, 1),
   trade_log |-> <<>>, positions |-> <<>>, cash |-> <<>>,
   portfolio_value |-> <<>>,
   wanted |-> "none", traded |-> FALSE,
   cash_before |-> Rat(0, 1), position_before |-> Rat(0, 1),
   results |-> NoRun]

\* a length check that also refuses a series of exactly 50 bars
StartRun_raises_on_fifty(run) ==
  IF Len(run.df) <= MinBars
    THEN [run EXCEPT !.pc = "raised"]
    ELSE [run EXCEPT !.pc = "loop", !.i = FirstBar,
                     !.current_cash = Rat(run.initial_capital, 1),
                     !.current_position = Rat(0, 1),
                     !.positions = [k \in 1..Len(run.df) |-> Rat(0, 1)],
                     !.cash = [k \in 1..Len(run.df) |-> Rat(run.initial_capital, 1)],
                     !.portfolio_value =
                        [k \in 1..Len(run.df) |-> Rat(run.initial_capital, 1)]]

\* lines 117-134: the length check and the data structures
StartRun(run) ==
  IF Len(run.df) < MinBars
    THEN [run EXCEPT !.pc = "raised"]
    ELSE [run EXCEPT !.pc = "loop", !.i = FirstBar,
                     !.current_cash = Rat(run.initial_capital, 1),
                     !.current_position = Rat(0, 1),
                     !.positions = [k \in 1..Len(run.df) |-> Rat(0, 1)],
                     !.cash = [k \in 1..Len(run.df) |-> Rat(run.initial_capital, 1)],
                     !.portfolio_value =
                        [k \in 1..Len(run.df) |-> Rat(run.initial_capital, 1)]]

\* lines 236-293
FinishRun(run) == [run EXCEPT !.pc = "done", !.results = Report(run)]

LiveUnchanged ==
  UNCHANGED <<now, ticks, exchange, simulation_mode, price_cache, risk_params,
              risk_manager, order_executor, running, last_place_time,
              window_event, last>>

\* run_backtest up to the loop
RunBacktest ==
  /\ backtest.pc = "ready"
  /\ backtest' = StartRun(backtest)
  /\ UNCHANGED replay
  /\ LiveUnchanged

\* one iteration of the loop of run_backtest
SimulateNextBar ==
  /\ backtest.pc = "loop"
  /\ backtest.i < Len(backtest.df)
  /\ backtest' = SimulateBar(backtest)
  /\ UNCHANGED replay
  /\ LiveUnchanged

\* the loop is over: the report
ReportResults ==
  /\ backtest.pc = "loop"
  /\ backtest.i >= Len(backtest.df)
  /\ backtest' = FinishRun(backtest)
  /\ UNCHANGED replay
  /\ LiveUnchanged

\* the exchange closes a candle at price c while the backtest runs
ExchangeCandleCloses(c) ==
  /\ backtest.pc \in {"ready", "loop"}
  /\ Len(backtest.later) < MaxLater
  /\ backtest' = [backtest EXCEPT !.later = Append(@, c)]
  /\ UNCHANGED replay
  /\ LiveUnchanged

\* one iteration of the loop of run_trading_system (lines 53-120)
LiveCycle(strategy_signals) ==
  \E r \in {RunCycle(order_executor, risk_manager, price_cache, now, exchange,
                     simulation_mode, risk_params, strategy_signals)} :
     /\ running
     /\ Len(order_executor.order_history) < MaxOrders
     /\ order_executor' = r.oe
     /\ risk_manager' = r.rm
     /\ price_cache' = r.cache
     /\ running' = (r.outcome # "terminated")
     /\ last_place_time' = IF r.place_calls > 0 THEN now ELSE last_place_time
     /\ window_event' = "none"
     /\ last' = [op |-> "cycle", outcome |-> r.outcome,
                 strategy_signals |-> strategy_signals,
                 cache_before |-> price_cache,
                 risk_before |-> risk_manager,
                 history_before |-> order_executor.order_history,
                 price_answered |-> r.price_answered,
                 should_trade |-> r.should_trade,
                 order_type |-> r.order_type,
                 position_size |-> r.position_size,
                 execute_calls |-> r.execute_calls, place_calls |-> r.place_calls,
                 should_stop |-> r.should_stop, calls |-> r.calls]
     /\ UNCHANGED <<now, ticks, exchange, simulation_mode, risk_params,
                    backtest, replay>>

\* Ctrl+C: KeyboardInterrupt is raised in the main thread wherever it
\* happens to be, in one of the sleeps between two iterations (lines 65,
\* 74, 120) or inside an iteration, here right after update_metrics has
\* returned (line 59). No handler of the loop body catches it (they catch
\* Exception); the handler of line 122 logs and returns.
StopPoints == {"sleep", "update_metrics"}

StopSignal(point) ==
  \E u \in {IF point = "sleep"
              THEN [rm |-> risk_manager, cache |-> price_cache]
              ELSE update_metrics(risk_manager, price_cache, now, exchange,
                                  exchange, risk_params)} :
     /\ running
     /\ running' = FALSE
     /\ risk_manager' = u.rm
     /\ price_cache' = u.cache
     /\ window_event' = "none"
     /\ last' = [op |-> "stop", point |-> point,
                 risk_before |-> risk_manager,
                 cache_before |-> price_cache,
                 history_before |-> order_executor.order_history]
     /\ UNCHANGED <<now, ticks, exchange, simulation_mode, risk_params,
                    order_executor, last_place_time, backtest, replay>>

\* ------------------------------------------------------ the configuration
\* the strategies that are asked about: one of the default list, one with
\* an entry outside the list, one that no configuration knows
ConfigStrategies == {"bollinger", "twitter_sentiment", "momentum"}

\* the risk records a configuration file may hold: the default one, one
\* with other values and without two of the keys, an empty one, none
RiskRecords ==
  { default_config.risk_management,
    [present |-> TRUE,
     params |-> [key \in {"max_position_percent", "take_profit_ratio"} |->
                   IF key = "max_position_percent" THEN 10 ELSE 3]],
    [present |-> TRUE, params |-> << >>],
    [present |-> FALSE, params |-> << >>] }

InitConfig ==
  /\ InitLive
  /\ exchange = [code |-> "0", price |-> 1]
  /\ ~simulation_mode
  /\ backtest \in { [pc |-> "config",
                      config |-> [default_config EXCEPT !.risk_management = r],
                      call |-> NoCall] : r \in RiskRecords }
  /\ replay = NoRun

UpdateStrategyStatus(strategy_name, enabled) ==
  /\ backtest.pc = "config"
  /\ backtest' = [backtest EXCEPT
                    !.config = update_strategy_status(backtest.config,
                                                      strategy_name, enabled),
                    !.call = [op |-> "update_strategy_status",
                              strategy_name |-> strategy_name]]
  /\ UNCHANGED replay
  /\ LiveUnchanged

IsStrategyEnabled(strategy_name) ==
  /\ backtest.pc = "config"
  /\ \E r \in {is_strategy_enabled(backtest.config, strategy_name)} :
        backtest' = [backtest EXCEPT
                       !.call = [op |-> "is_strategy_enabled",
                                 strategy_name |-> strategy_name,
                                 raised |-> r.raised, ret |-> r.ret]]
  /\ UNCHANGED replay
  /\ LiveUnchanged

\* the risk governor reads one of its parameters
ReadRiskParam(key) ==
  /\ backtest.pc = "config"
  /\ \E r \in {RiskParam(backtest.config, key)} :
        backtest' = [backtest EXCEPT
                       !.call = [op |-> "risk_param", key |-> key,
                                 raised |-> r.raised, ret |-> r.ret]]
  /\ UNCHANGED replay
  /\ LiveUnchanged

NextConfig ==
  \/ \E strategy_name \in ConfigStrategies, enabled \in BOOLEAN :
       UpdateStrategyStatus(strategy_name, enabled)
  \/ \E strategy_name \in ConfigStrategies : IsStrategyEnabled(strategy_name)
  \/ \E key \in RiskKeys : ReadRiskParam(key)

SpecConfig == InitConfig /\ [][NextConfig]_vars

\* ------------------------------------------------ the execution gateway
\* execute_order under arbitrary callers

Next ==
  \/ \E dt \in Jumps : Tick(dt)
  \/ \E ex \in Exchanges : ExchangeChange(ex)
  \/ \E req \in GatewayRequests, lat \in Latencies, ex2 \in Drift(exchange) :
       ExecuteOrderCall(req.type, req.size, lat, ex2)

Spec == Init /\ [][Next]_vars

\* ----------------------------------------------------- the risk governor
\* the risk governor alone, over days
InitRisk == Init /\ ~simulation_mode

NextRisk ==
  \/ \E dt \in DayJumps : TickDay(dt)
  \/ \E ex \in Exchanges : ExchangeChange(ex)
  \/ \E limit \in DailyLossLimits :
       update_risk_params([risk_params EXCEPT !.max_daily_loss = limit])
  \/ \E ex2 \in Drift(exchange) : UpdateMetricsCall(ex2)
  \/ ShouldStopTradingCall

SpecRisk == InitRisk /\ [][NextRisk]_vars

\* ------------------------------------------------------ position sizing
\* sizes, sides, prices and position limits at one moment
NextSizing ==
  \/ \E ex \in Exchanges : ExchangeChange(ex)
  \/ \E pct \in PositionPercents :
       update_risk_params([risk_params EXCEPT !.max_position_percent = pct])
  \/ \E size \in ProposedSizes : CheckPositionSizeCall(size)
  \/ \E req \in OrderRequests : ExecuteOrderCall(req.type, req.size, 0, exchange)

SpecSizing == Init /\ [][NextSizing]_vars

\* --------------------------------------------------------- the live loop
\* the loop of run_trading_system, and execute_order called beside it; the
\* price moves between 1 and 3
LoopExchanges == {ex \in Exchanges : ex.price \in {1, 3}}
InitLoop == Init /\ exchange \in LoopExchanges

\* what the enabled strategies answer in a cycle: nothing, a strong buy, a
\* strong sell of low confidence, a weak buy
LiveSignals ==
  { << >>,
    << [strategy |-> "bollinger", signal |-> Frac(4, 5), confidence |-> FracOne] >>,
    << [strategy |-> "bollinger", signal |-> Frac(-1, 1), confidence |-> Frac(1, 10)] >>,
    << [strategy |-> "bollinger", signal |-> Frac(-1, 1), confidence |-> FracOne],
       [strategy |-> "breakout", signal |-> Frac(4, 5), confidence |-> Frac(1, 2)] >> }

NextLoop ==
  \/ \E dt \in LoopJumps : Tick(dt)
  \/ \E ex \in LoopExchanges : ExchangeChange(ex)
  \/ \E strategy_signals \in LiveSignals : LiveCycle(strategy_signals)
  \/ \E req \in GatewayRequests :
       ExecuteOrderCall(req.type, req.size, 0, exchange)

SpecLoop == InitLoop /\ [][NextLoop]_vars

\* the live loop and the stop signal
NextStop ==
  \/ \E dt \in LoopJumps : Tick(dt)
  \/ \E ex \in LoopExchanges : ExchangeChange(ex)
  \/ \E strategy_signals \in LiveSignals : LiveCycle(strategy_signals)
  \/ \E point \in StopPoints : StopSignal(point)

SpecStop == InitLoop /\ [][NextStop]_vars

\* ----------------------------------------------------------- the ledger
\* execute_order, the lookups and the cancellation called in any order
OrderIds == {"ordId", "failed", "error", "unknown"}
HistoryLimits == {1, 5}

NextLedger ==
  \/ \E dt \in LoopJumps : Tick(dt)
  \/ \E ex \in LoopExchanges : ExchangeChange(ex)
  \/ \E req \in OrderRequests :
       ExecuteOrderCall(req.type, req.size, 0, exchange)
  \/ \E order_id \in OrderIds : GetOrderStatusCall(order_id)
  \/ \E order_id \in OrderIds : CancelOrderCall(order_id)
  \/ \E limit \in HistoryLimits : GetTradeHistoryCall(limit)

SpecLedger == InitLoop /\ [][NextLedger]_vars

\* --------------------------------------------------- the balance query
\* the operations of the governor that read the balance, while the exchange
\* fails and recovers
BalanceJumps == {4, 86401}

NextBalance ==
  \/ \E dt \in BalanceJumps : TickDay(dt)
  \/ \E ex \in Exchanges : ExchangeChange(ex)
  \/ RiskManagerConstruct
  \/ \E ex2 \in Drift(exchange) : UpdateMetricsCall(ex2)
  \/ ShouldStopTradingCall
  \/ \E size \in ProposedSizes : CheckPositionSizeCall(size)
  \/ GetRiskMetricsCall

SpecBalance == InitRisk /\ [][NextBalance]_vars

\* --------------------------------------------------------- the backtest
\* run_backtest with the Bollinger strategy alone, on series whose first
\* MinBars - 1 bars are flat, while the exchange goes on trading
BarPrices == {50, 500000}
CandlePrices == {50, 100}
FlatWarmup == [k \in 1..(MinBars - 1) |-> 50]
Tails(longest) == UNION { [1..n -> BarPrices] : n \in 0..longest }
FlatStartSeries == { FlatWarmup \o t : t \in Tails(MaxBars - MinBars + 1) }
BollingerConfigs == {BollingerDefaults, BollingerSymmetric}

InitBacktest ==
  /\ InitLive
  /\ exchange = [code |-> "0", price |-> 1]
  /\ ~simulation_mode
  /\ backtest \in { NewRun(df, later, <<"bollinger">>, config, InitialCapital) :
                      df \in FlatStartSeries, later \in {<<>>},
                      config \in BollingerConfigs }
  /\ replay = NoRun

NextBacktest ==
  \/ RunBacktest
  \/ SimulateNextBar
  \/ ReportResults
  \/ \E c \in CandlePrices : ExchangeCandleCloses(c)

SpecBacktest == InitBacktest /\ [][NextBacktest]_vars

\* combine_signals on the signals of the first strategies, one signal per
\* strategy, under a configuration that gives a weight to some of them
StrategyNames == <<"bollinger", "breakout", "multi_timeframe">>
SignalValues == {Frac(-1, 1), FracZero, Frac(4, 5)}
Confidences == {FracZero, Frac(1, 2), FracOne}
WeightValues == {FracZero, FracOne, Frac(-1, 2)}
SignalLists ==
  UNION { { [k \in 1..n |-> [strategy |-> StrategyNames[k], signal |-> v[k],
                             confidence |-> c[k]]] :
            v \in [1..n -> SignalValues], c \in [1..n -> Confidences] } :
          n \in 0..MaxSignals }
WeightConfigs ==
  UNION { [names -> WeightValues] :
          names \in SUBSET { StrategyNames[k] : k \in 1..MaxSignals } }

InitCombiner ==
  /\ InitLive
  /\ exchange = [code |-> "0", price |-> 1]
  /\ ~simulation_mode
  /\ backtest \in { [pc |-> "signals", strategy_signals |-> signals,
                      weights |-> weights] :
                      signals \in SignalLists, weights \in WeightConfigs }
  /\ replay = NoRun

CombineSignals ==
  /\ backtest.pc = "signals"
  /\ backtest' = [pc |-> "combined",
                  strategy_signals |-> backtest.strategy_signals,
                  weights |-> backtest.weights,
                  combined |-> combine_signals(backtest.strategy_signals,
                                               backtest.weights)]
  /\ UNCHANGED replay
  /\ LiveUnchanged

NextCombiner == CombineSignals

SpecCombiner == InitCombiner /\ [][NextCombiner]_vars

\* should_trade on combined signals of any strength and confidence, with
\* the default threshold and with thresholds given by the caller
CombinedSignals ==
  { [final_signal |-> v, confidence |-> c] :
      v \in { Frac(n, 10) : n \in -10..10 },
      c \in { Frac(n, 20) : n \in {0, 3, 4, 5, 20} } }
Thresholds == {DefaultThreshold, Frac(1, 2), FracZero}

InitGate ==
  /\ InitLive
  /\ exchange = [code |-> "0", price |-> 1]
  /\ ~simulation_mode
  /\ backtest \in { [pc |-> "combined", combined |-> combined] :
                      combined \in CombinedSignals }
  /\ replay = NoRun

ShouldTrade(threshold) ==
  /\ backtest.pc = "combined"
  /\ backtest' = [pc |-> "decided", combined |-> backtest.combined,
                  threshold |-> threshold,
                  should_trade |-> should_trade(backtest.combined, threshold)]
  /\ UNCHANGED replay
  /\ LiveUnchanged

NextGate == \E threshold \in Thresholds : ShouldTrade(threshold)

SpecGate == InitGate /\ [][NextGate]_vars

\* calculate_position_size on two signals for the same positive account
\* value and price
SizingSignals == { Frac(n, 20) : n \in {-60, -40, -20, -16, -5, -2, 0, 2, 5, 6, 20, 30, 40} }
AccountValues == {Rat(1000, 1), Rat(1, 2)}
SizingPrices == {1, 50, 500000}

InitPosition ==
  /\ InitLive
  /\ exchange = [code |-> "0", price |-> 1]
  /\ ~simulation_mode
  /\ \E account_value \in AccountValues, current_price \in SizingPrices :
       /\ backtest \in { [pc |-> "signal", signal |-> s, account_value |-> account_value,
                          current_price |-> current_price] : s \in SizingSignals }
       /\ replay \in { [pc |-> "signal", signal |-> s, account_value |-> account_value,
                        current_price |-> current_price] : s \in SizingSignals }

PositionSized(call) ==
  [pc |-> "sized", signal |-> call.signal, account_value |-> call.account_value,
   current_price |-> call.current_price,
   position_size |-> calculate_position_size(call.signal, call.account_value,
                                             call.current_price)]

CalculatePositionSizes ==
  /\ backtest.pc = "signal" /\ replay.pc = "signal"
  /\ backtest' = PositionSized(backtest)
  /\ replay' = PositionSized(replay)
  /\ LiveUnchanged

NextPosition == CalculatePositionSizes

SpecPosition == InitPosition /\ [][NextPosition]_vars

\* run_backtest on strictly rising series with one registered producer
\* that is always bullish with confidence 1.0
RisingStarts == {1, 50, 1000}
RisingSteps == {1, 7, 1000}
Capitals == {InitialCapital, 250}
RisingSeries ==
  { [k \in 1..n |-> start + (k - 1) * step] :
      n \in (MinBars - 1)..MaxBars, start \in RisingStarts, step \in RisingSteps }

InitBullish ==
  /\ InitLive
  /\ exchange = [code |-> "0", price |-> 1]
  /\ ~simulation_mode
  /\ backtest \in { NewRun(df, <<>>, <<"always_bullish">>, BollingerDefaults, capital) :
                      df \in RisingSeries, capital \in Capitals }
  /\ replay = NoRun

NextBullish == RunBacktest \/ SimulateNextBar \/ ReportResults

SpecBullish == InitBullish /\ [][NextBullish]_vars

\* The trade statistics of lines 245-265 on the trade logs the loop can
\* leave behind: the first trade is a buy (a sell needs a position), and
\* buys and sells follow in any order afterwards.
TradePrices == {50, 100, 200}
TradeEntries == { [type |-> t, price |-> p] : t \in {"buy", "sell"}, p \in TradePrices }
TradeLogs ==
  { log \in UNION { [1..n -> TradeEntries] : n \in 0..MaxTrades } :
      log # <<>> => log[1].type = "buy" }

InitStatistics ==
  /\ InitLive
  /\ exchange = [code |-> "0", price |-> 1]
  /\ ~simulation_mode
  /\ backtest \in { [pc |-> "log", trade_log |-> log] : log \in TradeLogs }
  /\ replay = NoRun

ComputeStatistics ==
  /\ backtest.pc = "log"
  /\ backtest' = [pc |-> "statistics", trade_log |-> backtest.trade_log,
                  results |-> TradeStatistics(backtest.trade_log)]
  /\ UNCHANGED replay
  /\ LiveUnchanged

NextStatistics == ComputeStatistics

SpecStatistics == InitStatistics /\ [][NextStatistics]_vars

\* Two requests side by side: run_backtest on a series, and run_backtest
\* again with the same capital, strategies and configuration, either on a
\* series that differs in one bar or while the exchange holds other
\* candles beyond the series. Both advance bar by bar together.
OneBarChanged(df) ==
  { [df EXCEPT ![k] = c] : k \in MinBars..Len(df), c \in BarPrices }
LaterCandles == UNION { [1..n -> CandlePrices] : n \in 0..MaxLater }

InitPair ==
  /\ InitLive
  /\ exchange = [code |-> "0", price |-> 1]
  /\ ~simulation_mode
  /\ \E df \in { s \in FlatStartSeries : Len(s) >= MinBars },
        config \in BollingerConfigs :
       /\ backtest = NewRun(df, <<>>, <<"bollinger">>, config, InitialCapital)
       /\ replay \in
            { NewRun(other, <<>>, <<"bollinger">>, config, InitialCapital) :
                other \in OneBarChanged(df) }
            \cup { NewRun(df, later, <<"bollinger">>, config, InitialCapital) :
                     later \in LaterCandles }

RunBoth ==
  /\ backtest.pc = "ready" /\ replay.pc = "ready"
  /\ backtest' = StartRun(backtest)
  /\ replay' = StartRun(replay)
  /\ LiveUnchanged

SimulateBoth ==
  /\ backtest.pc = "loop" /\ replay.pc = "loop"
  /\ backtest.i < Len(backtest.df)
  /\ backtest' = SimulateBar(backtest)
  /\ replay' = SimulateBar(replay)
  /\ LiveUnchanged

ReportBoth ==
  /\ backtest.pc = "loop" /\ replay.pc = "loop"
  /\ backtest.i >= Len(backtest.df)
  /\ backtest' = FinishRun(backtest)
  /\ replay' = FinishRun(replay)
  /\ LiveUnchanged

NextPair == RunBoth \/ SimulateBoth \/ ReportBoth

SpecPair == InitPair /\ [][NextPair]_vars

\* ================================================================ claims
\* the latest step was an execute_order call / one that invoked place_order /
\* one that the gate refused
OrderCall == last.op = "execute_order"
OrderPlaced == OrderCall /\ last.info.place_calls > 0
OrderRejected == OrderCall /\ last.info.gate # "passed"
LatestEntry == order_executor.order_history[Len(order_executor.order_history)]

\* the loss of the window that began at balance initial is, at balance
\* value, limit percent of initial or more
LossRatioReached(initial, value, limit) ==
  initial > 0 /\ 100 * value <= (100 - limit) * initial

\* C1: every execute_order call that reaches place_order (accepted, rejected
\* or raising) leaves last_order_time at or after the moment of that
\* invocation, and two place_order invocations are never less than
\* min_order_interval (60 s) apart.
C1_EveryPlaceOrderAdvancesThrottle ==
  OrderPlaced =>
    /\ order_executor.last_order_time >= last_place_time
    /\ last.prev_place_time > 0 =>
         last_place_time - last.prev_place_time >= min_order_interval

\* C2: an execute_order call refused by the gate (throttle or risk halt)
\* does not call place_order and leaves last_order_time and order_history
\* as they were.
C2_GateRejectionChangesNothing ==
  OrderRejected =>
    /\ last.info.place_calls = 0
    /\ last_place_time = last.prev_place_time
    /\ order_executor.last_order_time = last.timer_before
    /\ order_executor.order_history = last.history_before

C2_Witness ==
  /\ OrderRejected
  /\ last.info.gate = "throttle"
  /\ Len(order_executor.order_history) > 0

\* C3: place_order is invoked only when should_stop_trading returned false
\* at the gate of that call: no order is submitted while the loss of the
\* window, at the balance the gate read, is max_daily_loss percent or more.
C3_NoOrderWhileHalted ==
  OrderPlaced =>
    /\ last.info.gate = "passed"
    /\ ~LossRatioReached(last.gate_initial, last.info.gate_value,
                         risk_params.max_daily_loss)

C3_Witness ==
  /\ OrderPlaced
  /\ last.gate_initial > 0
  /\ last.info.gate_value < last.gate_initial

\* C4: every execute_order call that passes the gate appends exactly one
\* entry to order_history, with status 'success' when place_order returned
\* an acceptance, 'failed' when it returned a rejection, and 'error' only
\* when place_order itself raised.
C4_LedgerReflectsOutcome ==
  (OrderCall /\ last.info.gate = "passed") =>
    /\ Len(order_executor.order_history) = Len(last.history_before) + 1
    /\ order_executor.order_history = Append(last.history_before, LatestEntry)
    /\ last.info.result = "accepted" => LatestEntry.status = "success"
    /\ last.info.result = "rejected" => LatestEntry.status = "failed"
    /\ LatestEntry.status = "error" => last.info.result = "raised"

\* C5: an execute_order call invokes place_order at most once, whatever the
\* submission answered, and a live cycle makes at most one execute_order
\* call and so at most one place_order invocation.
C5_PlaceOrderAtMostOnce ==
  /\ OrderCall => last.info.place_calls <= 1
  /\ last.op = "cycle" => (last.execute_calls <= 1 /\ last.place_calls <= 1)

C5_Witness ==
  /\ OrderCall
  /\ last.info.result = "raised"
  /\ last.info.place_calls = 1
  /\ LatestEntry.status = "error"

\* C6: in the result of a rejected execute_order call, time_constraint is
\* true exactly when the throttle refused, risk_constraint is true when the
\* risk halt refused, and at least one of the two is true.
C6_RejectionDetailsNameTheGate ==
  OrderRejected =>
    /\ last.info.time_constraint <=> (last.info.gate = "throttle")
    /\ last.info.gate = "risk" => last.info.risk_constraint
    /\ last.info.time_constraint \/ last.info.risk_constraint

\* r is the smaller of proposed and account_value * pct / 100 / price
IsSmallerOfProposalAndCap(r, proposed, account_value, pct, price) ==
  /\ r.n * proposed.d <= proposed.n * r.d
  /\ r.n * 100 * price <= account_value * pct * r.d
  /\ \/ r.n * proposed.d = proposed.n * r.d
     \/ r.n * 100 * price = account_value * pct * r.d

\* C7: check_position_size returns min(proposed_size, account_value *
\* max_position_percent / 100 / current_price), and that clamped size, not
\* the proposal, is the size execute_order passes to place_order and
\* records in the ledger.
C7_ClampedSizeIsSubmitted ==
  /\ (last.op = "check_position_size" /\ ~last.raised) =>
       IsSmallerOfProposalAndCap(last.ret, last.proposed, last.account_value,
                                 risk_params.max_position_percent,
                                 last.current_price)
  /\ OrderPlaced =>
       /\ IsSmallerOfProposalAndCap(last.info.adjusted, last.proposed,
                                    last.info.account_value,
                                    risk_params.max_position_percent,
                                    last.info.current_price)
       /\ last.info.place_size = last.info.adjusted
       /\ LatestEntry.size = last.info.adjusted

C7_Witness ==
  /\ OrderPlaced
  /\ last.info.account_value > 0
  /\ last.info.adjusted.n * last.proposed.d < last.proposed.n * last.info.adjusted.d
  /\ LatestEntry.size = last.info.adjusted

\* C8: after every update_metrics call the halted flag
\* (max_daily_loss_reached) is true exactly when the loss of the window,
\* (initial_balance - current balance) / initial_balance * 100, is
\* max_daily_loss or more.
C8_FlagIsWindowLoss ==
  (last.op = "update_metrics" /\ risk_manager.initial_balance > 0) =>
    (risk_manager.max_daily_loss_reached <=>
       LossRatioReached(risk_manager.initial_balance, last.current_balance,
                        risk_params.max_daily_loss))

\* C9 (as amended): every should_stop_trading call, and so every call made
\* after the breaker tripped, reports true exactly when the loss of the
\* current window at the balance it reads is max_daily_loss or more, and
\* leaves the halted flag equal to what it reports; the first call after a
\* window reset reports false unless the loss of the new window has itself
\* reached the limit.
C9_StopFollowsWindowLoss ==
  last.op = "should_stop_trading" =>
    /\ last.ret <=> LossRatioReached(risk_manager.initial_balance,
                                     last.account_value,
                                     risk_params.max_daily_loss)
    /\ risk_manager.initial_balance > 0 =>
         risk_manager.max_daily_loss_reached = last.ret

C9_Witness ==
  /\ last.op = "should_stop_trading"
  /\ last.tripped_before
  /\ ~last.ret
  /\ ~risk_manager.max_daily_loss_reached

\* C9 (as stated): once the breaker has tripped, should_stop_trading reports
\* true while the loss ratio stays at the limit and the window is not
\* reset, and reports false on the first call after the ratio dropped below
\* the limit or the window was reset.
C9_FalseOnFirstCallAfterReset ==
  (last.op = "should_stop_trading" /\ (last.tripped_before \/ last.after_reset)) =>
    IF last.after_reset THEN ~last.ret
    ELSE last.ret <=> LossRatioReached(risk_manager.initial_balance,
                                       last.account_value,
                                       risk_params.max_daily_loss)

\* C10: update_metrics resets the window exactly when its age is more than
\* 24 h: after such a call initial_balance and last_balance equal the
\* current balance, the daily loss is 0 and the halted flag is false; at an
\* age of 24 h or less initial_balance and the window start time stay as
\* they were.
C10_ResetExactlyAfterOneDay ==
  last.op = "update_metrics" =>
    IF last.age > WindowSeconds
      THEN /\ risk_manager.daily_reset_time = now
           /\ risk_manager.initial_balance = last.current_balance
           /\ risk_manager.last_balance = last.current_balance
           /\ risk_manager.daily_loss = 0
           /\ ~risk_manager.max_daily_loss_reached
      ELSE /\ risk_manager.initial_balance = last.initial_before
           /\ risk_manager.daily_reset_time = last.reset_time_before

\* ---------------------------------------------------------------- C11
\* C11: when the retrieval of the account value raises, the balance query
\* of the governor returns the last recorded balance (0 while the governor
\* is being constructed and has none), in update_metrics (the query of
\* the daily reset included), should_stop_trading, check_position_size and
\* get_risk_metrics.
C11_FailedBalanceQueryFallsBack ==
  /\ (last.op = "__init__" /\ last.balance_failed) => last.initial_balance = 0
  /\ (last.op = "update_metrics" /\ last.reset /\ last.reset_failed) =>
       last.reset_balance = last.last_balance_before
  /\ (last.op = "update_metrics" /\ last.balance_failed) =>
       /\ last.current_balance = last.last_balance_read
       /\ risk_manager.last_balance = last.last_balance_read
  /\ (last.op \in {"should_stop_trading", "check_position_size", "get_risk_metrics"}
       /\ last.balance_failed) =>
       last.account_value = last.last_balance_before
  /\ (last.op = "get_risk_metrics" /\ last.second_failed) =>
       last.second_value = last.last_balance_before

\* a governor that holds a positive balance answers it when the exchange
\* fails, and a size check completes on it from a cached price
C11_Witness ==
  /\ last.op = "check_position_size"
  /\ last.balance_failed
  /\ ~last.raised
  /\ last.account_value = last.last_balance_before
  /\ last.account_value > 0

\* ---------------------------------------------------------------- C12
\* C12: no order is submitted to place_order while the balance the governor
\* reports is 0: every execute_order call that invokes place_order sized
\* the order against a positive account value.
C12_NoOrderOnZeroBalance ==
  OrderPlaced => last.info.account_value > 0


\* ------------------------------------------------------------------ C14
LastTrade(run) == run.trade_log[Len(run.trade_log)]
Simulated(run) == run.pc \in {"loop", "done"} /\ run.i > FirstBar

\* C14: in every state of the simulation the simulated cash and the
\* simulated position are non-negative; a bar that bought had cash for
\* size * price * (1 + commission) and paid exactly that, a bar that sold
\* held the full size, and any other bar leaves cash, position and trade
\* log as they were and raises nothing.
C14_CashAndPositionNonNegative ==
  /\ backtest.pc \in {"loop", "done"} =>
       /\ RatLE(Rat(0, 1), backtest.current_cash)
       /\ RatLE(Rat(0, 1), backtest.current_position)
  /\ Simulated(backtest) /\ backtest.traded /\ LastTrade(backtest).type = "buy" =>
       \E cost \in {RatScale(RatScale(LastTrade(backtest).size,
                                      LastTrade(backtest).price, 1), 1001, 1000)} :
          /\ backtest.wanted = "buy"
          /\ RatLE(cost, backtest.cash_before)
          /\ RatEq(backtest.current_cash, RatSub(backtest.cash_before, cost))
          /\ RatEq(backtest.current_position,
                   RatAdd(backtest.position_before, LastTrade(backtest).size))
  /\ Simulated(backtest) /\ backtest.traded /\ LastTrade(backtest).type = "sell" =>
       /\ backtest.wanted = "sell"
       /\ RatLE(LastTrade(backtest).size, backtest.position_before)
       /\ RatEq(backtest.current_position,
                RatSub(backtest.position_before, LastTrade(backtest).size))
  /\ Simulated(backtest) /\ ~backtest.traded =>
       /\ RatEq(backtest.current_cash, backtest.cash_before)
       /\ RatEq(backtest.current_position, backtest.position_before)
       /\ \A k \in 1..Len(backtest.trade_log) :
            backtest.trade_log[k].bar < backtest.i - 1

\* a bar wanted to buy after an earlier buy and the cash did not cover it
C14_Witness ==
  /\ Simulated(backtest)
  /\ backtest.wanted = "buy" /\ ~backtest.traded
  /\ Len(backtest.trade_log) > 0


\* ------------------------------------------------------------------ C15
\* C15: a run on fewer than 50 bars raises before any simulation state
\* (portfolio series, trade log, loop position) or report exists, and a
\* run on 50 bars or more never raises for its length.
C15_FewerThanFiftyBarsRaises ==
  /\ backtest.pc # "ready" => (backtest.pc = "raised" <=> Len(backtest.df) < 50)
  /\ backtest.pc = "raised" =>
       /\ backtest.portfolio_value = <<>>
       /\ backtest.trade_log = <<>>
       /\ backtest.i = 0
       /\ backtest.results = NoRun

\* a run on 49 bars has raised
C15_Witness == backtest.pc = "raised" /\ Len(backtest.df) = 49


\* ------------------------------------------------------------------ C19
NeverBelowPeak(values) == \A k \in 2..Len(values) : RatLE(values[k - 1], values[k])

\* C19: in the report of every run the drawdown of every bar is at most 0
\* and max_drawdown is at most 0; max_drawdown is exactly 0 iff the
\* portfolio value never fell below its running peak, that is, never
\* decreased from one bar to the next.
C19_DrawdownNeverPositive ==
  backtest.pc = "done" =>
    /\ \A k \in 1..Len(backtest.results.drawdown) :
         RatLE(backtest.results.drawdown[k], Rat(0, 1))
    /\ RatLE(backtest.results.max_drawdown, Rat(0, 1))
    /\ RatIsZero(backtest.results.max_drawdown)
         <=> NeverBelowPeak(backtest.portfolio_value)

\* a finished run whose portfolio rose above the initial capital and fell
\* below its peak afterwards
C19_Witness ==
  /\ backtest.pc = "done"
  /\ RatLT(backtest.results.max_drawdown, Rat(0, 1))
  /\ \E k \in 1..Len(backtest.portfolio_value) :
       RatLT(Rat(backtest.initial_capital, 1), backtest.portfolio_value[k])


\* ------------------------------------------------------------------ C16
IsFlat(df) == \A k \in 1..Len(df) : df[k] = df[1]

\* C16: a run on a flat (constant-price) historical series executes no
\* trade on any bar: its trade log stays empty, and its report has
\* total_return 0.
C16_FlatSeriesNoTrade ==
  /\ backtest.pc \in {"loop", "done"} /\ IsFlat(backtest.df) =>
       backtest.trade_log = <<>>
  /\ backtest.pc = "done" /\ IsFlat(backtest.df) =>
       RatIsZero(backtest.results.total_return)


\* ------------------------------------------------------------------ C13
\* the two series agree on bars 0..i
AgreeUpTo(df, other, i) == \A k \in 1..(i + 1) : df[k] = other[k]
BothSimulated ==
  /\ backtest.pc \in {"loop", "done"} /\ replay.pc \in {"loop", "done"}
  /\ backtest.i > FirstBar /\ replay.i = backtest.i

\* C13: no look-ahead. When two runs with the same capital, strategies and
\* configuration have simulated bar i on series that agree on bars 0..i,
\* the trade decision of bar i and the portfolio state after it (cash,
\* position, total value) are the same in both, whatever the bars after i
\* and whatever the exchange holds outside the series.
C13_NoLookAhead ==
  BothSimulated /\ AgreeUpTo(backtest.df, replay.df, backtest.i - 1) =>
    /\ replay.wanted = backtest.wanted
    /\ replay.traded = backtest.traded
    /\ RatEq(replay.current_cash, backtest.current_cash)
    /\ RatEq(replay.current_position, backtest.current_position)
    /\ RatEq(replay.portfolio_value[backtest.i], backtest.portfolio_value[backtest.i])


\* ------------------------------------------------------------------ C20
SameInputs(run, other) ==
  /\ other.df = run.df
  /\ other.initial_capital = run.initial_capital
  /\ other.strategies = run.strategies
  /\ other.config = run.config

\* C20: run_backtest is deterministic. Two finished runs given the same
\* historical series, initial capital, producers and configuration have
\* identical portfolio series, trade logs and performance reports.
C20_SameInputsSameReport ==
  backtest.pc = "done" /\ replay.pc = "done" /\ SameInputs(backtest, replay) =>
    /\ replay.portfolio_value = backtest.portfolio_value
    /\ replay.trade_log = backtest.trade_log
    /\ replay.results = backtest.results


\* ------------------------------------------------------------------ C18
\* the positions of the sells that directly follow a buy
RoundTrips(log) ==
  { k \in 2..Len(log) : log[k].type = "sell" /\ log[k - 1].type = "buy" }
Winners(log) == { k \in RoundTrips(log) : log[k].price > log[k - 1].price }
RECURSIVE SumOfGains(_, _)
SumOfGains(log, ks) ==
  IF ks = {} THEN FracZero
  ELSE \* any member: the sum does not depend on the order
       LET k == CHOOSE x \in ks : TRUE
       IN FracAdd(Frac((log[k].price - log[k - 1].price) * 100, log[k - 1].price),
                  SumOfGains(log, ks \ {k}))

\* C18: for every trade log with at least one adjacent buy-then-sell pair,
\* win_rate is the percentage of those pairs whose sell price exceeds the
\* buy price and avg_return_per_trade is the mean percentage gain over
\* those pairs; trades outside such pairs change neither.
C18_StatisticsOverPairsOnly ==
  backtest.pc = "statistics" /\ RoundTrips(backtest.trade_log) # {} =>
    /\ backtest.results.win_rate =
         Frac(Cardinality(Winners(backtest.trade_log)) * 100,
              Cardinality(RoundTrips(backtest.trade_log)))
    /\ backtest.results.avg_return_per_trade =
         FracDiv(SumOfGains(backtest.trade_log, RoundTrips(backtest.trade_log)),
                 Frac(Cardinality(RoundTrips(backtest.trade_log)), 1))


\* ------------------------------------------------------------------ C17
StrictlyIncreasing(df) == \A k \in 2..Len(df) : df[k - 1] < df[k]
Buys(log) == { k \in 1..Len(log) : log[k].type = "buy" }
Sells(log) == { k \in 1..Len(log) : log[k].type = "sell" }
\* the commission of the first k trades: 0.1% of size * price each
RECURSIVE CommissionPaid(_, _)
CommissionPaid(log, k) ==
  IF k = 0 THEN Rat(0, 1)
  ELSE Only({ RatAdd(before, RatScale(log[k].size, log[k].price, 1000)) :
              before \in {CommissionPaid(log, k - 1)} })
\* at least one buy, no sell, and a final portfolio value above the
\* initial capital less the commission paid
BoughtAndGained(run) ==
  /\ Buys(run.trade_log) # {}
  /\ Sells(run.trade_log) = {}
  /\ \E paid \in {CommissionPaid(run.trade_log, Len(run.trade_log))} :
       \E net \in {RatSub(Rat(run.initial_capital, 1), paid)} :
          RatLT(net, run.results.final_value)

\* C17 as stated: every finished run on a strictly increasing series with
\* the single always-bullish producer executes at least one buy and no
\* sell, and ends above the initial capital net of commission.
C17_RisingSeriesBuysAndGains ==
  backtest.pc = "done" /\ StrictlyIncreasing(backtest.df)
    /\ backtest.strategies = <<"always_bullish">>
    => BoughtAndGained(backtest)

\* C17, amended: the same for a strictly increasing series of at least 52
\* bars, the shortest on which a bought position sees a later bar.
C17_LongRisingSeriesBuysAndGains ==
  backtest.pc = "done" /\ StrictlyIncreasing(backtest.df)
    /\ backtest.strategies = <<"always_bullish">>
    /\ Len(backtest.df) >= 52
    => BoughtAndGained(backtest)

\* a finished run on 52 rising bars that bought on both simulated bars
C17_Witness ==
  /\ backtest.pc = "done" /\ StrictlyIncreasing(backtest.df)
  /\ backtest.strategies = <<"always_bullish">>
  /\ Len(backtest.df) = 52
  /\ Cardinality(Buys(backtest.trade_log)) = 2


\* ------------------------------------------------------------------ C21
\* the signals with confidence > 0
Contributing(signals) == { k \in 1..Len(signals) : signals[k].confidence.n > 0 }
ClaimedWeight(signals, weights, k) ==
  IF signals[k].strategy \in DOMAIN weights
    THEN weights[signals[k].strategy] ELSE Frac(1, Len(signals))
\* sum of value * confidence * weight over the signals ks
RECURSIVE SumOfValues(_, _, _)
SumOfValues(signals, weights, ks) ==
  IF ks = {} THEN FracZero
  ELSE LET k == CHOOSE x \in ks : TRUE
       IN FracAdd(FracMul(FracMul(signals[k].signal, signals[k].confidence),
                          ClaimedWeight(signals, weights, k)),
                  SumOfValues(signals, weights, ks \ {k}))
\* sum of confidence * weight over the signals ks
RECURSIVE SumOfWeights(_, _, _)
SumOfWeights(signals, weights, ks) ==
  IF ks = {} THEN FracZero
  ELSE LET k == CHOOSE x \in ks : TRUE
       IN FracAdd(FracMul(signals[k].confidence, ClaimedWeight(signals, weights, k)),
                  SumOfWeights(signals, weights, ks \ {k}))
Numerator(run) ==
  SumOfValues(run.strategy_signals, run.weights, Contributing(run.strategy_signals))
Denominator(run) ==
  SumOfWeights(run.strategy_signals, run.weights, Contributing(run.strategy_signals))

\* a / b for b # 0
Quotient(a, b) ==
  IF b.n > 0 THEN FracDiv(a, b)
  ELSE FracDiv([n |-> -a.n, d |-> a.d], [n |-> -b.n, d |-> b.d])

\* C21 as stated: final_value is the quotient of the two weighted sums over
\* the signals with confidence > 0; final_value and confidence are 0 when
\* no signal has confidence > 0; a single signal with confidence > 0 gives
\* final_value equal to its value.
C21_WeightedAverage ==
  backtest.pc = "combined" =>
    /\ Denominator(backtest).n # 0 =>
         backtest.combined.final_signal = Quotient(Numerator(backtest), Denominator(backtest))
    /\ Contributing(backtest.strategy_signals) = {} =>
         backtest.combined.final_signal = FracZero /\ backtest.combined.confidence = FracZero
    /\ \A k \in 1..Len(backtest.strategy_signals) :
         Contributing(backtest.strategy_signals) = {k} =>
           backtest.combined.final_signal = backtest.strategy_signals[k].signal

\* C21, amended: the quotient is returned when the sum of confidence *
\* weight is positive; final_value and confidence are 0 when that sum is
\* not positive, as when every confidence is 0 or the input is empty; a
\* single signal with confidence > 0 and weight > 0 gives its own value.
C21_WeightedAverageOfPositiveWeight ==
  backtest.pc = "combined" =>
    /\ Denominator(backtest).n > 0 =>
         backtest.combined.final_signal = FracDiv(Numerator(backtest), Denominator(backtest))
    /\ Denominator(backtest).n <= 0 =>
         backtest.combined.final_signal = FracZero /\ backtest.combined.confidence = FracZero
    /\ \A k \in 1..Len(backtest.strategy_signals) :
         /\ Contributing(backtest.strategy_signals) = {k}
         /\ ClaimedWeight(backtest.strategy_signals, backtest.weights, k).n > 0
         => backtest.combined.final_signal = backtest.strategy_signals[k].signal

\* two signals of different value, confidence and weight were combined
C21_Witness ==
  /\ backtest.pc = "combined"
  /\ Cardinality(Contributing(backtest.strategy_signals)) = 2
  /\ backtest.strategy_signals[1].signal # backtest.strategy_signals[2].signal
  /\ backtest.strategy_signals[1].confidence # backtest.strategy_signals[2].confidence
  /\ "bollinger" \in DOMAIN backtest.weights /\ "breakout" \notin DOMAIN backtest.weights
  /\ Denominator(backtest).n > 0
  /\ backtest.combined.final_signal.n # 0


\* ------------------------------------------------------------------ C22
InUnitRange(x) == FracLE(Frac(-1, 1), x) /\ FracLE(x, FracOne)

\* C22: for input signals with values in [-1, 1] and confidences in [0, 1],
\* under any configured strategy weights, the combined final_value lies in
\* [-1, 1] and the combined confidence in [0, 1].
C22_CombinedSignalInRange ==
  backtest.pc = "combined" =>
    /\ InUnitRange(backtest.combined.final_signal)
    /\ FracLE(FracZero, backtest.combined.confidence)
    /\ FracLE(backtest.combined.confidence, FracOne)


\* ------------------------------------------------------------------ C23
\* C23: should_trade(combined, threshold) is true iff abs(final_value) >=
\* threshold and confidence >= 0.2; it is false whenever confidence < 0.2,
\* whatever final_value, and false whenever abs(final_value) < threshold,
\* whatever the confidence.
C23_GateIffStrengthAndConfidence ==
  backtest.pc = "decided" =>
    /\ backtest.should_trade <=>
         /\ Abs(backtest.combined.final_signal.n) * backtest.threshold.d
              >= backtest.threshold.n * backtest.combined.final_signal.d
         /\ backtest.combined.confidence.n * 5 >= backtest.combined.confidence.d
    /\ backtest.combined.confidence.n * 5 < backtest.combined.confidence.d
         => ~backtest.should_trade
    /\ Abs(backtest.combined.final_signal.n) * backtest.threshold.d
         < backtest.threshold.n * backtest.combined.final_signal.d
         => ~backtest.should_trade

\* a full-strength signal of confidence 0.15 was refused
C23_Witness ==
  /\ backtest.pc = "decided"
  /\ backtest.combined.final_signal = Frac(-1, 1)
  /\ backtest.combined.confidence = Frac(3, 20)
  /\ ~backtest.should_trade


\* ------------------------------------------------------------------ C24
\* C24: for one positive account value and price, a signal of larger or
\* equal absolute value never gets the smaller position, and size * price
\* lies between 0.5% and 3% of the account value.
C24_SizeMonotoneAndBounded ==
  backtest.pc = "sized" /\ replay.pc = "sized" =>
    /\ FracLE(FracAbs(backtest.signal), FracAbs(replay.signal)) =>
         RatLE(backtest.position_size, replay.position_size)
    /\ RatLE(RatScale(backtest.account_value, 5, 1000),
             RatScale(backtest.position_size, backtest.current_price, 1))
    /\ RatLE(RatScale(backtest.position_size, backtest.current_price, 1),
             RatScale(backtest.account_value, 3, 100))

\* a weak signal sized at the floor of 0.5% and a stronger one sized above
C24_Witness ==
  /\ backtest.pc = "sized" /\ replay.pc = "sized"
  /\ backtest.signal = Frac(1, 10) /\ replay.signal = Frac(-4, 5)
  /\ RatEq(RatScale(backtest.position_size, backtest.current_price, 1),
           RatScale(backtest.account_value, 5, 1000))
  /\ RatLT(backtest.position_size, replay.position_size)


\* ------------------------------------------------------------------ C25
LookupCall == last.op = "get_order_status"
CancelCall == last.op = "cancel_order"
HistoryCall == last.op = "get_trade_history"
LedgerOnlyCall == LookupCall \/ CancelCall \/ HistoryCall

\* the identifier of the call was carried by an entry of the ledger
KnownBefore ==
  \E k \in 1..Len(last.history_before) :
     last.history_before[k].order_id = last.order_id

\* the ledger after the call is the ledger before it with the status of
\* one pending entry that carries the identifier changed to cancelled
PendingCancelled ==
  \E k \in 1..Len(last.history_before) :
     /\ last.history_before[k].order_id = last.order_id
     /\ last.history_before[k].status = "pending"
     /\ order_executor.order_history =
          [last.history_before EXCEPT ![k].status = "cancelled"]

\* C25: get_order_status and cancel_order never raise and touch nothing
\* but the ledger (the price cache is as before the call). cancel_order
\* succeeds only by turning a pending entry with that identifier into a
\* cancelled one, and a failed cancellation leaves the ledger as it was.
\* get_order_status never changes the ledger and answers not-found for an
\* identifier that no entry carries.
C25_LookupAndCancelOnLedgerOnly ==
  /\ (LookupCall \/ CancelCall) =>
       /\ ~last.raised
       /\ price_cache = last.cache_before
  /\ CancelCall =>
       /\ last.ret.success => PendingCancelled
       /\ ~last.ret.success =>
            order_executor.order_history = last.history_before
  /\ LookupCall =>
       /\ order_executor.order_history = last.history_before
       /\ ~KnownBefore =>
            ~last.ret.success /\ last.ret.message = "not found"
       /\ KnownBefore => last.ret.success

\* a cancellation of an order that the ledger holds as finished has
\* failed and left the ledger alone
C25_Witness ==
  /\ CancelCall
  /\ KnownBefore
  /\ ~last.ret.success
  /\ Len(order_executor.order_history) = 2

\* a lookup of an identifier that no entry carries, in a ledger that is
\* not empty
C25_WitnessNotFound ==
  /\ LookupCall
  /\ ~KnownBefore
  /\ last.history_before # << >>
  /\ last.ret.message = "not found"

\* ------------------------------------------------------------------ C26
TerminalStatuses == {"success", "failed", "error"}

\* the ledger before the last call is a prefix of the ledger after it
LedgerExtended ==
  /\ Len(order_executor.order_history) >= Len(last.history_before)
  /\ \A k \in 1..Len(last.history_before) :
        last.history_before[k].status \in TerminalStatuses =>
          order_executor.order_history[k] = last.history_before[k]
  /\ \A k \in 1..Len(last.history_before) :
        /\ order_executor.order_history[k].order_id = last.history_before[k].order_id
        /\ order_executor.order_history[k].type = last.history_before[k].type
        /\ order_executor.order_history[k].size = last.history_before[k].size

\* C26: after every execute_order, get_order_status, get_trade_history and
\* cancel_order call the ledger is at least as long as before, every
\* earlier entry is at its position, and every earlier entry with status
\* success, failed or error is unchanged.
C26_LedgerAppendOnly ==
  (OrderCall \/ LedgerOnlyCall) => LedgerExtended

\* execute_order has appended an entry behind a finished one
C26_Witness ==
  /\ OrderCall
  /\ Len(last.history_before) = 1
  /\ last.history_before[1].status \in TerminalStatuses
  /\ Len(order_executor.order_history) = 2
  /\ order_executor.order_history[1] = last.history_before[1]

\* a cancellation was asked for the first, finished, entry of two
C26_WitnessCancel ==
  /\ CancelCall
  /\ Len(last.history_before) = 2
  /\ last.history_before[1].order_id = last.order_id
  /\ last.history_before[1].status \in TerminalStatuses
  /\ order_executor.order_history = last.history_before

\* the table of the trade history was built from a ledger of two entries
C26_WitnessHistory ==
  /\ HistoryCall
  /\ Len(last.history_before) = 2
  /\ ~last.raised
  /\ Len(last.ret.rows) = 1


\* ------------------------------------------------------------------ C27
CycleCall == last.op = "cycle"

\* what the aggregator makes of the signals the strategies answered in the
\* last cycle
CycleSignal == combine_signals(last.strategy_signals, NoWeights)

\* C27: a live cycle in which the governor does not report a halt, the
\* price query answers and the combined signal passes should_trade calls
\* execute_order exactly once, with the side given by the sign of the
\* combined signal.
C27_TradingCycleReachesGateway ==
  ( /\ CycleCall
    /\ last.outcome \notin {"halted", "terminated"}
    /\ last.price_answered
    /\ should_trade(CycleSignal, DefaultThreshold) ) =>
  ( /\ last.execute_calls = 1
    /\ last.order_type = determine_order_type(CycleSignal.final_signal) )

\* ------------------------------------------------------------------ C28
\* the exchange does not answer and the price cache is of no use (empty,
\* or 300 s old or older)
NoMarketData ==
  /\ _make_request_raises(exchange)
  /\ \/ last.cache_before.price <= 0
     \/ now - last.cache_before.timestamp >= PriceCacheStale

\* C28: a live cycle during which the market-state queries fail and no
\* cached price is usable is only skipped: the loop is alive after it, and
\* the risk state and the ledger are as before the cycle.
C28_DataFailureSkipsCycle ==
  (CycleCall /\ NoMarketData) =>
    /\ running
    /\ last.outcome = "skipped"
    /\ order_executor.order_history = last.history_before


\* ------------------------------------------------------------------ C29
StopCall == last.op = "stop"

\* C29: a stop signal ends the loop between two cycles only: when the loop
\* has stopped on a signal no cycle was under way, and the risk state, the
\* price cache and the ledger are those the last completed cycle left.
C29_StopOnlyBetweenCycles ==
  StopCall =>
    /\ last.point = "sleep"
    /\ risk_manager = last.risk_before
    /\ price_cache = last.cache_before
    /\ order_executor.order_history = last.history_before


\* ------------------------------------------------------------------ C30
ConfigState == backtest.pc = "config"
EnabledCall == ConfigState /\ backtest.call.op = "is_strategy_enabled"
RiskParamCall == ConfigState /\ backtest.call.op = "risk_param"

\* the strategy asked about is listed in active_strategies and has no
\* entry in strategy_params
ListedWithoutEntry ==
  /\ InList(backtest.call.strategy_name, backtest.config.active_strategies)
  /\ backtest.call.strategy_name \notin DOMAIN backtest.config.strategy_params

\* the risk parameter asked for is not configured: its key, or the whole
\* record, is missing
RiskKeyMissing ==
  \/ ~backtest.config.risk_management.present
  \/ backtest.call.key \notin DOMAIN backtest.config.risk_management.params

\* C30: a reference to something that is not configured never raises and
\* yields a default. is_strategy_enabled returns a boolean, also for a
\* strategy listed in active_strategies without an entry in
\* strategy_params; a risk parameter whose key or whole record is missing
\* is read as its default (5, 3, 5, 2).
C30_ConfigGapsYieldDefaults ==
  /\ EnabledCall =>
       /\ ~backtest.call.raised
       /\ backtest.call.ret \in BOOLEAN
  /\ RiskParamCall =>
       /\ ~backtest.call.raised
       /\ RiskKeyMissing => backtest.call.ret = RiskDefault(backtest.call.key)


\* ------------------------------------------------------------------ C31
\* the run has entered the loop
Simulating == backtest.pc \in {"loop", "done"}

\* bar k (counted from 0) carries the values the series were created with
InitialState(run, k) ==
  /\ RatIsZero(run.positions[k + 1])
  /\ RatEq(run.cash[k + 1], Rat(run.initial_capital, 1))
  /\ RatEq(run.portfolio_value[k + 1], Rat(run.initial_capital, 1))

\* the total value recorded for bar k is the cash recorded for it plus the
\* position recorded for it at the close of bar k
MarkedAtClose(run, k) ==
  RatEq(run.portfolio_value[k + 1],
        RatAdd(run.cash[k + 1], RatScale(run.positions[k + 1], Close(run.df, k), 1)))

\* C31: the three series hold one state per bar of the data; every bar
\* before index 50 carries position 0 and the initial capital, and every
\* simulated bar (index 50 up to the bar simulated last) carries a total
\* value of cash + position * close of that bar, the bar simulated last
\* with the cash and the position the loop holds, traded or not.
C31_PortfolioStatePerBar ==
  Simulating =>
    /\ Len(backtest.portfolio_value) = Len(backtest.df)
    /\ Len(backtest.positions) = Len(backtest.df)
    /\ Len(backtest.cash) = Len(backtest.df)
    /\ \A k \in 0..(FirstBar - 1) : InitialState(backtest, k)
    /\ \A k \in FirstBar..(backtest.i - 1) : MarkedAtClose(backtest, k)
    /\ backtest.i > FirstBar =>
         /\ RatEq(backtest.cash[backtest.i], backtest.current_cash)
         /\ RatEq(backtest.positions[backtest.i], backtest.current_position)

\* two bars have been simulated, a trade on the first and none on the
\* second, which closed at another price with the position still held
C31_Witness ==
  /\ Simulating
  /\ backtest.i = FirstBar + 2
  /\ ~backtest.traded
  /\ ~RatIsZero(backtest.current_position)
  /\ Close(backtest.df, FirstBar) # Close(backtest.df, FirstBar + 1)


\* ------------------------------------------------------------------ C32
\* the close of the bar simulated last
LastClose(run) == Close(run.df, run.i - 1)

\* the gross value size * price of the trade executed last
GrossValue(run) == RatScale(LastTrade(run).size, LastTrade(run).price, 1)

\* cash + position * close of the bar simulated last, before its trade
ValueBefore(run) ==
  RatAdd(run.cash_before, RatScale(run.position_before, LastClose(run), 1))

\* the same after its trade
ValueAfter(run) ==
  RatAdd(run.current_cash, RatScale(run.current_position, LastClose(run), 1))

\* C32: a bar that bought size s at price p (the close of the bar) has
\* lowered the cash by s*p*1.001 and raised the position by s; a bar that
\* sold has raised the cash by s*p*0.999 and lowered the position by s; a
\* bar without a trade has changed neither. The total value at the close
\* of the bar is s*p*0.001 lower after a trade than before it and is
\* never higher.
C32_TradeMovesCashAndPosition ==
  Simulated(backtest) =>
    /\ backtest.traded /\ LastTrade(backtest).type = "buy" =>
         /\ LastTrade(backtest).price = LastClose(backtest)
         /\ RatEq(backtest.current_cash,
                  RatSub(backtest.cash_before,
                         RatScale(GrossValue(backtest), 1001, 1000)))
         /\ RatEq(backtest.current_position,
                  RatAdd(backtest.position_before, LastTrade(backtest).size))
    /\ backtest.traded /\ LastTrade(backtest).type = "sell" =>
         /\ LastTrade(backtest).price = LastClose(backtest)
         /\ RatEq(backtest.current_cash,
                  RatAdd(backtest.cash_before,
                         RatScale(GrossValue(backtest), 999, 1000)))
         /\ RatEq(backtest.current_position,
                  RatSub(backtest.position_before, LastTrade(backtest).size))
    /\ backtest.traded =>
         RatEq(ValueAfter(backtest),
               RatSub(ValueBefore(backtest),
                      RatScale(GrossValue(backtest), 1, 1000)))
    /\ ~backtest.traded =>
         /\ RatEq(backtest.current_cash, backtest.cash_before)
         /\ RatEq(backtest.current_position, backtest.position_before)
    /\ RatLE(ValueAfter(backtest), ValueBefore(backtest))

\* a bar has sold part of a position bought on an earlier bar
C32_Witness ==
  /\ Simulated(backtest)
  /\ backtest.traded
  /\ LastTrade(backtest).type = "sell"
  /\ ~RatIsZero(LastTrade(backtest).size)
  /\ RatLT(ValueAfter(backtest), ValueBefore(backtest))

\* a bar has bought
C32_WitnessBuy ==
  /\ Simulated(backtest)
  /\ backtest.traded
  /\ LastTrade(backtest).type = "buy"
  /\ RatLT(ValueAfter(backtest), ValueBefore(backtest))


\* ------------------------------------------------------------------ C33
\* the list reasons is made of one entry for each signal of the set ks and
\* of no other entry, in the order of the signals
ReasonsAreOf(run, ks) ==
  /\ Len(run.combined.reasons) = Cardinality(ks)
  /\ \E f \in [1..Len(run.combined.reasons) -> ks] :
       /\ \A a, b \in 1..Len(run.combined.reasons) : a < b => f[a] < f[b]
       /\ \A a \in 1..Len(run.combined.reasons) :
            /\ run.combined.reasons[a].strategy = run.strategy_signals[f[a]].strategy
            /\ run.combined.reasons[a].confidence = run.strategy_signals[f[a]].confidence

\* the signals of non-zero value whose weight confidence * weight in the
\* combination is not zero
WeightedNonZero(run) ==
  { k \in 1..Len(run.strategy_signals) :
      /\ run.strategy_signals[k].signal.n # 0
      /\ FracMul(run.strategy_signals[k].confidence,
                 ClaimedWeight(run.strategy_signals, run.weights, k)).n # 0 }

\* the signals of non-zero value and confidence > 0
ConfidentNonZero(run) ==
  { k \in 1..Len(run.strategy_signals) :
      /\ run.strategy_signals[k].signal.n # 0
      /\ run.strategy_signals[k].confidence.n > 0 }

\* C33 as stated: reasons holds exactly one entry for each input signal of
\* non-zero weight and non-zero value, in the order supplied, and no entry
\* for any other signal.
C33_ReasonsOfWeightedSignals ==
  backtest.pc = "combined" => ReasonsAreOf(backtest, WeightedNonZero(backtest))

\* C33, amended: reasons holds exactly one entry for each input signal
\* with confidence > 0 and non-zero value, whatever weight is configured
\* for its strategy, in the order supplied, and no entry for any other
\* signal.
C33_ReasonsOfConfidentSignals ==
  backtest.pc = "combined" => ReasonsAreOf(backtest, ConfidentNonZero(backtest))

\* two signals were combined of which only the second has a reason to
\* give, the first being of value 0
C33_Witness ==
  /\ backtest.pc = "combined"
  /\ Len(backtest.strategy_signals) = 2
  /\ backtest.strategy_signals[1].signal.n = 0
  /\ backtest.strategy_signals[1].confidence.n > 0
  /\ Len(backtest.combined.reasons) = 1
  /\ backtest.combined.reasons[1].strategy = "breakout"

\* both signals have given their reason, in their order
C33_WitnessBoth ==
  /\ backtest.pc = "combined"
  /\ Len(backtest.combined.reasons) = 2
  /\ backtest.combined.reasons[1].strategy = "bollinger"


\* ------------------------------------------------------------------ C34
\* the signals with confidence > 0 whose strategy has a positive weight
PositivelyWeighted(run) ==
  { k \in Contributing(run.strategy_signals) :
      ClaimedWeight(run.strategy_signals, run.weights, k).n > 0 }

\* C34: the combined confidence is 0 or 1 and nothing in between, and it
\* is 1, so that the confidence test of should_trade passes, whenever some
\* input signal has confidence > 0 and a positive weight.
C34_ConfidenceIsZeroOrOne ==
  backtest.pc = "combined" =>
    /\ backtest.combined.confidence \in {FracZero, FracOne}
    /\ PositivelyWeighted(backtest) # {} =>
         /\ backtest.combined.confidence = FracOne
         /\ FracLE(Frac(2, 10), backtest.combined.confidence)


\* ------------------------------------------------------------------ C35
\* C35: every entry of the ledger has the status success, failed or error,
\* so that none is pending; and every cancel_order call, whatever the
\* identifier, has returned a failure and left the ledger as it was.
C35_NoPendingEntryNoCancellation ==
  /\ \A k \in 1..Len(order_executor.order_history) :
        order_executor.order_history[k].status \in TerminalStatuses
  /\ CancelCall =>
       /\ ~last.raised
       /\ ~last.ret.success
       /\ order_executor.order_history = last.history_before

\* the cancellation of an accepted order was refused while the ledger held
\* an accepted order and one that ended in an error
C35_Witness ==
  /\ CancelCall
  /\ last.order_id = "ordId"
  /\ ~last.ret.success
  /\ \E k \in 1..Len(order_executor.order_history) :
        order_executor.order_history[k].status = "success"
  /\ \E k \in 1..Len(order_executor.order_history) :
        order_executor.order_history[k].status = "error"


\* ------------------------------------------------------------------ C36
\* the window of the governor started at balance 0
ZeroWindow == risk_manager.initial_balance = 0

\* C36: while the balance at the window start is 0, the halt flag is not
\* set, whatever update_metrics has seen, and every should_stop_trading
\* call has returned false, whatever the account is worth.
C36_ZeroWindowNeverHalts ==
  ZeroWindow =>
    /\ ~risk_manager.max_daily_loss_reached
    /\ last.op = "should_stop_trading" => ~last.ret
    /\ last.op = "update_metrics" /\ ~last.reset => last.initial_before = 0

\* in a window that started at 0, update_metrics has recorded a loss of
\* more than the limit of the balance it had seen before
C36_Witness ==
  /\ ZeroWindow
  /\ last.op = "update_metrics"
  /\ ~last.reset
  /\ risk_manager.daily_loss * 100 >
       risk_params.max_daily_loss * last.last_balance_before
  /\ risk_manager.daily_loss > 0
  /\ ~risk_manager.max_daily_loss_reached

\* in a window that started at 0, should_stop_trading has seen the account
\* worth less than at the last update and has returned false
C36_WitnessStop ==
  /\ ZeroWindow
  /\ last.op = "should_stop_trading"
  /\ last.account_value > 0
  /\ last.account_value < last.last_balance_before
  /\ ~last.ret


\* ------------------------------------------------------------------ C37
\* how often a call occurs among the calls of the last cycle
CallCount(name) == Cardinality({k \in DOMAIN last.calls : last.calls[k] = name})

\* C37: a live cycle calls execute_order at most once; a cycle whose risk
\* metrics report should_stop aggregates no signal and calls execute_order
\* not at all; and every execute_order call of a cycle comes after the
\* update_metrics call of that cycle.
C37_HaltedCycleDoesNothing ==
  CycleCall =>
    /\ CallCount("execute_order") <= 1
    /\ CallCount("execute_order") = last.execute_calls
    /\ last.should_stop =>
         /\ CallCount("combine_signals") = 0
         /\ CallCount("execute_order") = 0
         /\ order_executor.order_history = last.history_before
    /\ \A k \in DOMAIN last.calls :
         last.calls[k] = "execute_order" =>
           \E j \in 1..(k - 1) : last.calls[j] = "update_metrics"

\* the metrics of a cycle report should_stop while the strategies answer
\* signals that pass should_trade
C37_Witness ==
  /\ CycleCall
  /\ last.should_stop
  /\ last.outcome = "halted"
  /\ should_trade(CycleSignal, DefaultThreshold)
  /\ last.execute_calls = 0


\* ------------------------------------------------------------------ C38
\* C38: for every trade log of the simulation the reported win_rate lies
\* between 0 and 100, and the number of adjacent buy-then-sell pairs is at
\* most num_trades // 2, the divisor of line 261.
C38_WinRateWithinBounds ==
  backtest.pc = "statistics" =>
    /\ backtest.results.win_rate.n >= 0
    /\ backtest.results.win_rate.n <= 100 * backtest.results.win_rate.d
    /\ backtest.results.winning_trades <= Cardinality(RoundTrips(backtest.trade_log))
    /\ Cardinality(RoundTrips(backtest.trade_log)) <= backtest.results.num_trades \div 2

\* a log of two winning round trips: win_rate is 100
C38_Witness ==
  /\ backtest.pc = "statistics"
  /\ Len(backtest.trade_log) = 4
  /\ Cardinality(Winners(backtest.trade_log)) = 2
  /\ backtest.results.win_rate = Frac(100, 1)

\* a log with fewer round trips than num_trades // 2
C38_WitnessFewerPairs ==
  /\ backtest.pc = "statistics"
  /\ Cardinality(RoundTrips(backtest.trade_log)) = 1
  /\ backtest.results.num_trades \div 2 = 2
  /\ backtest.results.win_rate = Frac(50, 1)


\* ------------------------------------------------------------------ C39
\* the distance between the cash moved and the gross value of the trade
CashLessValue(trade) ==
  IF trade.type = "buy" THEN RatSub(trade.cost, trade.value)
  ELSE RatSub(trade.value, trade.revenue)
CommissionAsCharged(trade) ==
  /\ RatEq(trade.value, RatScale(trade.size, trade.price, 1))
  /\ RatEq(trade.commission, RatScale(RatScale(trade.size, trade.price, 1), 1, 1000))
  /\ RatEq(trade.commission, CashLessValue(trade))

\* C39: on every trade of the log, buy or sell, the recorded commission is
\* size * price * commission rate, the difference between the cash moved
\* and the gross value recorded on the trade.
C39_CommissionIsCashLessValue ==
  \A k \in DOMAIN backtest.trade_log : CommissionAsCharged(backtest.trade_log[k])

====
